---- MODULE Spec2Model ----
(***************************************************************************)
(* A model of pymsb: the binary cursor (binIO.py), the label hash table    *)
(* and prime search (helper.py), the text transcoder (adapter.py), the     *)
(* message-table codec (msbt.py) and the flowchart codec (msbf.py).        *)
(*                                                                         *)
(* Buffers are sequences of bytes; a stream is a record of the buffer, the *)
(* cursor position and the byte order.  A Python exception is modelled as  *)
(* the "err" field of the record an operation returns: "" means that the   *)
(* operation returned normally.                                            *)
(***************************************************************************)
EXTENDS Integers, Sequences, FiniteSets, TLC

VARIABLES
    pc,         \* position of the driver: which call comes next
    input,      \* arguments of the function under check
    output,     \* what the last call returned
    stream,     \* the BinaryMemoryIO the call reads from or writes to
    document,   \* the LMSDocument that is edited and packed
    flows,      \* the LMSFlows that is edited and packed
    binary      \* the bytes makebin returned, handed to *_from_buffer

vars == <<pc, input, output, stream, document, flows, binary>>

\* The entities, which the calls on plain functions leave alone.
entities == <<document, flows, binary>>

Null == "null"

(***************************************************************************)
(* Bounds of the model.                                                    *)
(***************************************************************************)
MaxVal == 175           \* find_greater_prime is applied to MinVal..MaxVal
MaxHashLen == 4         \* length of the byte strings that are hashed
MaxEntries == 2         \* entries of a packed hash table
MaxTableBuckets == 3    \* bucket counts of a packed hash table
MaxTextLen == 3         \* characters of a text that is transcoded
MaxMessages == 2        \* messages of a document
MaxNodes == 3           \* nodes of a flow graph
MaxPatches == 2         \* fields of a file that are overwritten
MaxLabelled == 3        \* entries added to a document or to a flow graph
MaxBufferLen == 4       \* bytes of a buffer a text is read from
MaxReadLen == 9         \* bytes of a buffer primitives are read from
MaxSpanLen == 4         \* characters of a text with a placeholder span

MinVal == 0 - 3

Min(a, b) == IF a < b THEN a ELSE b
Max(a, b) == IF a > b THEN a ELSE b

\* Body at a value that is computed once and then named: the local
\* variable of a function that is assigned once and read several times.
With(value, Body(_)) == Body(value)

(***************************************************************************)
(* binIO.py: BinaryMemoryIO, an io.BytesIO with a byte order.              *)
(***************************************************************************)
Zeros(n) == [i \in 1..n |-> 0]

\* BinaryMemoryIO(initial_bytes, big_endian): the cursor starts at 0.
NewStream(initial_bytes, big_endian) ==
    [buf |-> initial_bytes, pos |-> 0, big |-> big_endian]

StreamSize(s) == Len(s.buf)

\* io.BytesIO.seek(pos): any position at or after 0 is accepted, also one
\* beyond the end.  A negative position raises ValueError; callers test it.
Seek(s, p) == [s EXCEPT !.pos = p]

\* BinaryMemoryIO.skip(count) with count >= 0.
Skip(s, count) == Seek(s, s.pos + count)

\* io.BytesIO.write(raw): overwrites from the cursor on, grows the buffer
\* when needed and fills a gap before the cursor with zero bytes.  Writing
\* nothing changes nothing, whatever the cursor.
Write(s, raw) ==
    IF Len(raw) = 0 THEN s
    ELSE LET n    == Len(s.buf)
             head == IF s.pos <= n THEN SubSeq(s.buf, 1, s.pos)
                     ELSE s.buf \o Zeros(s.pos - n)
             tail == IF s.pos + Len(raw) < n
                     THEN SubSeq(s.buf, s.pos + Len(raw) + 1, n)
                     ELSE << >>
         IN  [s EXCEPT !.buf = head \o raw \o tail, !.pos = s.pos + Len(raw)]

\* io.BytesIO.read(n): at most n bytes, fewer at the end of the buffer.
ReadBytes(s, n) ==
    IF s.pos >= Len(s.buf) \/ n <= 0 THEN << >>
    ELSE SubSeq(s.buf, s.pos + 1, Min(s.pos + n, Len(s.buf)))

\* The stream after read(n).
AfterRead(s, n) == [s EXCEPT !.pos = s.pos + Len(ReadBytes(s, n))]

\* struct.Struct(">H" / "<H").pack
PackU16(v, big) ==
    IF big THEN <<v \div 256, v % 256>> ELSE <<v % 256, v \div 256>>

\* struct.Struct(">I" / "<I").pack, for 0 <= v < 2^31
PackU32(v, big) ==
    LET b3 == v \div 16777216
        b2 == (v \div 65536) % 256
        b1 == (v \div 256) % 256
        b0 == v % 256
    IN  IF big THEN <<b3, b2, b1, b0>> ELSE <<b0, b1, b2, b3>>

\* struct.Struct(">i" / "<i").pack: two's complement
PackS32(v, big) ==
    IF v >= 0 THEN PackU32(v, big)
    ELSE With(v + 2147483647 + 1, LAMBDA w :     \* v + 2^31, in 0..2^31-1
             LET b3 == 128 + w \div 16777216
                 b2 == (w \div 65536) % 256
                 b1 == (w \div 256) % 256
                 b0 == w % 256
             IN  IF big THEN <<b3, b2, b1, b0>> ELSE <<b0, b1, b2, b3>>)

write_u8(s, v)  == Write(s, <<v>>)
write_u16(s, v) == Write(s, PackU16(v, s.big))
write_u32(s, v) == Write(s, PackU32(v, s.big))
write_s32(s, v) == Write(s, PackS32(v, s.big))

\* An unsigned 32-bit value does not fit the model checker's integers when
\* its top byte is 64 or more; every such value is read as Huge, which is
\* beyond every buffer and every count of the model.
Huge == 64 * 16777216

UnpackU16(raw, big) ==
    IF big THEN raw[1] * 256 + raw[2] ELSE raw[2] * 256 + raw[1]

\* The four bytes with the most significant one first.
BigFirst(raw, big) ==
    IF big THEN raw ELSE <<raw[4], raw[3], raw[2], raw[1]>>

UnpackU32(raw, big) ==
    With(BigFirst(raw, big), LAMBDA r :
        IF r[1] >= 64 THEN Huge
        ELSE r[1] * 16777216 + r[2] * 65536 + r[3] * 256 + r[4])

UnpackS32(raw, big) ==
    With(BigFirst(raw, big), LAMBDA r :
        IF r[1] >= 128
        THEN (r[1] - 256) * 16777216 + r[2] * 65536 + r[3] * 256 + r[4]
        ELSE IF r[1] >= 64 THEN Huge
        ELSE r[1] * 16777216 + r[2] * 65536 + r[3] * 256 + r[4])

\* __read_primitive__ without the test of the length: the bytes that are
\* missing at the end of the buffer are taken for zero.
ReadPrimitivePadded(s, width) ==
    With(ReadBytes(s, width), LAMBDA raw :
        [err |-> "",
         raw |-> raw \o Zeros(width - Len(raw)),
         s   |-> Seek(s, s.pos + Len(raw))])

\* __read_primitive__: the value, or EOFException when fewer bytes than the
\* width are left.  The cursor moves over the bytes that were read.
ReadPrimitive(s, width) ==
    With(ReadBytes(s, width), LAMBDA raw :
        [err |-> IF Len(raw) = width THEN "" ELSE "EOFException",
         raw |-> raw,
         s   |-> Seek(s, s.pos + Len(raw))])

read_u8(s) ==
    With(ReadPrimitive(s, 1), LAMBDA r :
        [err |-> r.err, s |-> r.s, v |-> IF r.err = "" THEN r.raw[1] ELSE 0])

read_u16(s) ==
    With(ReadPrimitive(s, 2), LAMBDA r :
        [err |-> r.err, s |-> r.s,
         v |-> IF r.err = "" THEN UnpackU16(r.raw, s.big) ELSE 0])

read_u32(s) ==
    With(ReadPrimitive(s, 4), LAMBDA r :
        [err |-> r.err, s |-> r.s,
         v |-> IF r.err = "" THEN UnpackU32(r.raw, s.big) ELSE 0])

read_s32(s) ==
    With(ReadPrimitive(s, 4), LAMBDA r :
        [err |-> r.err, s |-> r.s,
         v |-> IF r.err = "" THEN UnpackS32(r.raw, s.big) ELSE 0])

(***************************************************************************)
(* helper.py: find_greater_prime                                           *)
(***************************************************************************)
\* The inner loop with "<" in place of "<=".
RECURSIVE TrialDivisionStrict(_, _)
TrialDivisionStrict(val, i) ==
    IF i * i < val
    THEN IF val % i = 0 \/ val % (i + 2) = 0 THEN FALSE
         ELSE TrialDivisionStrict(val, i + 6)
    ELSE TRUE

\* The inner loop: "while i * i <= val and prime", from i on.
RECURSIVE TrialDivision(_, _)
TrialDivision(val, i) ==
    IF i * i <= val
    THEN IF val % i = 0 \/ val % (i + 2) = 0 THEN FALSE
         ELSE TrialDivision(val, i + 6)
    ELSE TRUE

\* The outer loop "while True", entered with an odd candidate.
RECURSIVE NextPrimeFrom(_)
NextPrimeFrom(val) ==
    IF val % 3 = 0 \/ val % 5 = 0 THEN NextPrimeFrom(val + 2)
    ELSE IF TrialDivision(val, 5) THEN val
    ELSE NextPrimeFrom(val + 2)

find_greater_prime(val) ==
    IF val < 5
    THEN IF val < 2 THEN 2 ELSE IF val = 2 THEN 3 ELSE 5
    ELSE NextPrimeFrom(IF val % 2 = 1 THEN val + 2 ELSE val + 1)

InitPrime ==
    /\ pc = "prime_call"
    /\ input \in [val : MinVal..MaxVal]
    /\ output = Null
    /\ stream = Null
    /\ document = Null /\ flows = Null /\ binary = Null

CallFindGreaterPrime ==
    /\ pc = "prime_call"
    /\ output' = find_greater_prime(input.val)
    /\ pc' = "prime_done"
    /\ UNCHANGED <<input, stream, entities>>

NextPrime == CallFindGreaterPrime

SpecPrime == InitPrime /\ [][NextPrime]_vars

IsPrime(p) == p >= 2 /\ \A d \in 2..(p - 1) : p % d # 0

\* C4: find_greater_prime(n) is the smallest prime strictly greater than n,
\* for every integer n, below 2 and prime n included; the values the
\* specification lists (0->2, 1->2, 2->3, 3->5, 4->5, 5->7, 10->11,
\* 100->101) are among them.
C4_SmallestGreaterPrime ==
    pc = "prime_done" =>
        /\ output > input.val
        /\ IsPrime(output)
        /\ \A q \in (input.val + 1)..(output - 1) : ~IsPrime(q)
        /\ (input.val = 0 => output = 2)
        /\ (input.val = 1 => output = 2)
        /\ (input.val = 2 => output = 3)
        /\ (input.val = 3 => output = 5)
        /\ (input.val = 4 => output = 5)
        /\ (input.val = 5 => output = 7)
        /\ (input.val = 10 => output = 11)
        /\ (input.val = 100 => output = 101)

\* The search has gone past a composite that has no factor below 11.
C4_Witness ==
    pc = "prime_done" /\ input.val = 120 /\ output = 127

(***************************************************************************)
(* helper.py: calc_hash_bucket_index                                       *)
(*                                                                         *)
(* Python integers are unbounded.  A non-negative integer is modelled by   *)
(* its digits in base 2^16, least significant first and without leading    *)
(* zero digits, so that the product is the one Python computes before the  *)
(* mask is applied.                                                        *)
(***************************************************************************)
Base == 256 * 256

\* Drops the leading zero digits.
RECURSIVE Normalize(_)
Normalize(x) ==
    IF Len(x) > 0 /\ x[Len(x)] = 0 THEN Normalize(SubSeq(x, 1, Len(x) - 1))
    ELSE x

\* x * m + carry, for a factor m and a carry below 2^15.
RECURSIVE MulAdd(_, _, _)
MulAdd(x, m, carry) ==
    IF Len(x) = 0
    THEN IF carry = 0 THEN << >> ELSE <<carry>>
    ELSE LET t == x[1] * m + carry
         IN  <<t % Base>> \o MulAdd(Tail(x), m, t \div Base)

\* x & 0xFFFFFFFF
Mask32(x) == Normalize(SubSeq(x, 1, Min(2, Len(x))))

\* x & 0xFFFF
Mask16(x) == Normalize(SubSeq(x, 1, Min(1, Len(x))))

\* x % n for 1 <= n < 2^15, the digits taken from the most significant.
RECURSIVE BigMod(_, _)
BigMod(x, n) ==
    IF Len(x) = 0 THEN 0
    ELSE (BigMod(Tail(x), n) * (Base % n) + x[1]) % n

\* One round of the loop that masks with 0xFFFF.
HashStep16(hsh, b) == Mask16(MulAdd(hsh, 1170, b))

\* One round of the loop: hsh = (hsh * 0x492 + b) & 0xFFFFFFFF
HashStep(hsh, b) == Mask32(MulAdd(hsh, 1170, b))

\* The loop "for b in encoded_string", entered with hsh.  The rounds are
\* taken in order; the string is split in two, and the first half is hashed
\* before the second is entered, only to keep the evaluation shallow for a
\* label of 255 bytes.
RECURSIVE HashLoop(_, _)
HashLoop(hsh, encoded_string) ==
    LET n    == Len(encoded_string)
        half == HashLoop(hsh, SubSeq(encoded_string, 1, n \div 2))
    IN  IF n = 0 THEN hsh
        ELSE IF n = 1 THEN HashStep(hsh, encoded_string[1])
        ELSE IF Len(half) >= 0
        THEN HashLoop(half, SubSeq(encoded_string, n \div 2 + 1, n))
        ELSE hsh

\* The values hsh takes: before the loop and after each round.
HashTrace(encoded_string) ==
    [k \in 1..(Len(encoded_string) + 1) |->
        HashLoop(<< >>, SubSeq(encoded_string, 1, k - 1))]

calc_hash_bucket_index(encoded_string, buckets) ==
    BigMod(HashLoop(<< >>, encoded_string), buckets)

HashBytes == {0, 65, 255}
BucketCounts == {1, 2, 3, 59, 101}

RECURSIVE SeqsUpTo(_, _)
SeqsUpTo(S, n) ==
    IF n = 0 THEN {<< >>}
    ELSE LET shorter == SeqsUpTo(S, n - 1)
         IN  shorter \cup {Append(q, x) : q \in shorter, x \in S}

InitHash ==
    /\ pc = "hash_call"
    /\ input \in [encoded_string : SeqsUpTo(HashBytes, MaxHashLen),
                  buckets : BucketCounts]
    /\ output = Null
    /\ stream = Null
    /\ document = Null /\ flows = Null /\ binary = Null

CallCalcHashBucketIndex ==
    /\ pc = "hash_call"
    /\ output' = [trace |-> HashTrace(input.encoded_string),
                  index |-> calc_hash_bucket_index(input.encoded_string,
                                                   input.buckets)]
    /\ pc' = "hash_done"
    /\ UNCHANGED <<input, stream, entities>>

NextHash == CallCalcHashBucketIndex

SpecHash == InitHash /\ [][NextHash]_vars

\* The sum of b * 0x492^k over the bytes, never masked.
RECURSIVE Polynomial(_, _)
Polynomial(acc, bytes) ==
    IF Len(bytes) = 0 THEN acc
    ELSE Polynomial(MulAdd(acc, 1170, Head(bytes)), Tail(bytes))

\* C5: the hash is the fold h = (h * 0x492 + b) mod 2^32 from 0, that is the
\* polynomial of the bytes modulo 2^32; no intermediate value leaves
\* 0..2^32-1; the bucket index is the hash modulo the bucket count, lies in
\* 0..n-1 and is 0 when there is one bucket.
C5_HashBucketIndex ==
    pc = "hash_done" =>
        /\ \A k \in 1..Len(output.trace) :
              /\ Len(output.trace[k]) <= 2
              /\ \A d \in 1..Len(output.trace[k]) :
                    output.trace[k][d] \in 0..(Base - 1)
        /\ Len(output.trace) = Len(input.encoded_string) + 1
        /\ output.trace[Len(output.trace)]
              = Mask32(Polynomial(<< >>, input.encoded_string))
        /\ output.index
              = BigMod(Mask32(Polynomial(<< >>, input.encoded_string)),
                       input.buckets)
        /\ output.index \in 0..(input.buckets - 1)
        /\ (input.buckets = 1 => output.index = 0)

\* A string whose polynomial exceeds 32 bits has been hashed into more than
\* one bucket.
C5_Witness ==
    /\ pc = "hash_done"
    /\ Len(Polynomial(<< >>, input.encoded_string)) > 2
    /\ input.buckets = 101
    /\ output.index > 0

(***************************************************************************)
(* helper.py: pack_hash_table and unpack_hash_table                        *)
(*                                                                         *)
(* A label is a sequence of code points.  A dictionary is a function; the  *)
(* empty dictionary is the empty sequence.                                 *)
(***************************************************************************)
\* An encoder of one byte per code point that takes every code point up to
\* 255, as str.encode("latin-1") does.
Latin1Encode(label) ==
    IF \E k \in 1..Len(label) : label[k] > 255
    THEN [err |-> "UnicodeEncodeError", bytes |-> << >>]
    ELSE [err |-> "", bytes |-> label]

\* str.encode("ascii"): one byte per code point, UnicodeEncodeError for a
\* code point above 127.
AsciiEncode(label) ==
    IF \E k \in 1..Len(label) : label[k] > 127
    THEN [err |-> "UnicodeEncodeError", bytes |-> << >>]
    ELSE [err |-> "", bytes |-> label]

\* bytes.decode("ascii"): UnicodeDecodeError for a byte above 127.
AsciiDecode(bytes) ==
    IF \E k \in 1..Len(bytes) : bytes[k] > 127
    THEN [err |-> "UnicodeDecodeError", label |-> << >>]
    ELSE [err |-> "", label |-> bytes]

\* label_indices[index] = label
DictPut(d, index, label) ==
    [k \in (DOMAIN d) \cup {index} |-> IF k = index THEN label ELSE d[k]]

\* "Sort labels into buckets": the loop over the (label_id, label) pairs.
RECURSIVE SortIntoBuckets(_, _, _)
SortIntoBuckets(labels, num_buckets, buckets) ==
    IF Len(labels) = 0 THEN [err |-> "", buckets |-> buckets]
    ELSE With(AsciiEncode(Head(labels)[2]), LAMBDA packed :
             IF packed.err # "" THEN [err |-> packed.err, buckets |-> buckets]
             ELSE IF Len(packed.bytes) > 255
             THEN [err |-> "LMSException: label too long", buckets |-> buckets]
             ELSE SortIntoBuckets(Tail(labels), num_buckets,
                    [buckets EXCEPT
                        ![calc_hash_bucket_index(packed.bytes, num_buckets) + 1]
                            = Append(@, <<packed.bytes, Head(labels)[1]>>)]))

\* The inner loop over one bucket's (packed_label, label_id) pairs.
RECURSIVE WriteBucketEntries(_, _)
WriteBucketEntries(s, bucket) ==
    IF Len(bucket) = 0 THEN s
    ELSE LET packed_label == Head(bucket)[1]
             label_id     == Head(bucket)[2]
         IN  WriteBucketEntries(
                 write_s32(Write(write_u8(s, Len(packed_label)), packed_label),
                           label_id),
                 Tail(bucket))

\* One bucket of "Write all buckets" where off_labels is not advanced past
\* the entries that were written.
WriteBucketSameOffset(s, bucket, off_labels) ==
    With(write_s32(write_s32(s, Len(bucket)), off_labels), LAMBDA s2 :
    With(WriteBucketEntries(Seek(s2, off_labels), bucket), LAMBDA s3 :
        [s |-> Seek(s3, s2.pos), off_labels |-> off_labels]))

\* One iteration of "Write all buckets": the stream and off_labels after it.
\* s2.pos is next_offset, s3.pos the new off_labels.
WriteBucket(s, bucket, off_labels) ==
    With(write_s32(write_s32(s, Len(bucket)), off_labels), LAMBDA s2 :
    With(WriteBucketEntries(Seek(s2, off_labels), bucket), LAMBDA s3 :
        [s |-> Seek(s3, s2.pos), off_labels |-> s3.pos]))

\* "for bucket in buckets", over buckets[lo..hi] in order; the range is
\* halved so that the evaluation stays shallow with 101 buckets.
RECURSIVE WriteBuckets(_, _, _, _)
WriteBuckets(st, buckets, lo, hi) ==
    IF lo > hi THEN st
    ELSE IF lo = hi THEN WriteBucket(st.s, buckets[lo], st.off_labels)
    ELSE With(WriteBuckets(st, buckets, lo, (lo + hi) \div 2), LAMBDA left :
             IF left.off_labels >= 0
             THEN WriteBuckets(left, buckets, (lo + hi) \div 2 + 1, hi)
             ELSE left)

pack_hash_table(s, labels, num_buckets) ==
    With(write_s32(s, num_buckets), LAMBDA s1 :
    With(SortIntoBuckets(labels, num_buckets,
                         [k \in 1..num_buckets |-> << >>]), LAMBDA sorted :
        IF sorted.err # "" THEN [err |-> sorted.err, s |-> s1]
        ELSE [err |-> "",
              s   |-> WriteBuckets([s |-> s1,
                                    off_labels |-> 4 + num_buckets * 8],
                                   sorted.buckets, 1, num_buckets).s]))

\* The loop "for j in range(num_entries)" of one bucket.
RECURSIVE ReadBucketEntries(_, _, _)
ReadBucketEntries(s, num_entries, label_indices) ==
    IF num_entries <= 0 THEN [err |-> "", s |-> s, dict |-> label_indices]
    ELSE With(read_u8(s), LAMBDA len_label :
         With(AsciiDecode(ReadBytes(len_label.s, len_label.v)), LAMBDA label :
         With(read_s32(AfterRead(len_label.s, len_label.v)), LAMBDA index :
             IF len_label.err # ""
             THEN [err |-> len_label.err, s |-> s, dict |-> label_indices]
             ELSE IF label.err # ""
             THEN [err |-> label.err, s |-> s, dict |-> label_indices]
             ELSE IF index.err # ""
             THEN [err |-> index.err, s |-> s, dict |-> label_indices]
             ELSE ReadBucketEntries(index.s, num_entries - 1,
                      DictPut(label_indices, index.v, label.label)))))

\* One iteration of "for i in range(num_buckets)": bucket i.
ReadBucket(st, off_start, off_buckets, i) ==
    With(read_s32(Seek(st.s, off_buckets + i * 8)), LAMBDA num_entries :
    With(read_s32(num_entries.s), LAMBDA off_labels :
        IF num_entries.err # "" THEN [st EXCEPT !.err = num_entries.err]
        ELSE IF off_labels.err # "" THEN [st EXCEPT !.err = off_labels.err]
        ELSE IF off_start + off_labels.v < 0
        THEN [st EXCEPT !.err = "ValueError"]
        ELSE ReadBucketEntries(Seek(off_labels.s, off_start + off_labels.v),
                               num_entries.v, st.dict)))

\* "for i in range(num_buckets)", over the buckets lo .. hi - 1 in order,
\* up to the first exception; the range is halved as in WriteBuckets.
RECURSIVE ReadBuckets(_, _, _, _, _)
ReadBuckets(st, off_start, off_buckets, lo, hi) ==
    IF lo >= hi \/ st.err # "" THEN st
    ELSE IF lo + 1 = hi THEN ReadBucket(st, off_start, off_buckets, lo)
    ELSE With(ReadBuckets(st, off_start, off_buckets, lo, (lo + hi) \div 2),
              LAMBDA left :
                 IF left.err # "" THEN left
                 ELSE ReadBuckets(left, off_start, off_buckets,
                                  (lo + hi) \div 2, hi))

\* s.pos is off_start, the position after the count is off_buckets.
unpack_hash_table(s) ==
    With(read_s32(s), LAMBDA num_buckets :
        IF num_buckets.err # ""
        THEN [err |-> num_buckets.err, s |-> s, dict |-> << >>]
        ELSE ReadBuckets([err |-> "", s |-> num_buckets.s, dict |-> << >>],
                         s.pos, num_buckets.s.pos, 0, num_buckets.v))

\* The labels of the tables that are packed: empty, one character, two
\* labels that differ in their last character, and the longest label.
TableLabels ==
    {<< >>, <<65>>, <<65, 66>>, <<65, 67>>, [k \in 1..255 |-> 76]}

TablePositions == 0..MaxEntries

RECURSIVE LabelLists(_)
LabelLists(n) ==
    IF n = 0 THEN {<< >>}
    ELSE LET shorter == LabelLists(n - 1)
         IN  shorter \cup
             {Append(q, <<p, l>>) :
                 q \in {r \in shorter : Len(r) = n - 1},
                 p \in TablePositions, l \in TableLabels}

DistinctPositions(labels) ==
    \A i, j \in 1..Len(labels) : i # j => labels[i][1] # labels[j][1]

\* Where the blob lies in the stream it is read from.
BlobOffset == 16

InitTable ==
    /\ pc = "table_pack"
    /\ input \in [labels : {l \in LabelLists(MaxEntries) : DistinctPositions(l)},
                  num_buckets : 1..MaxTableBuckets,
                  big : BOOLEAN]
    /\ output = Null
    /\ stream = NewStream(Zeros(4 + input.num_buckets * 8), input.big)
    /\ document = Null /\ flows = Null /\ binary = Null

\* create_stream(0x04 + num_buckets * 0x08), then pack_hash_table.
CallPackHashTable ==
    /\ pc = "table_pack"
    /\ \E r \in {pack_hash_table(stream, input.labels, input.num_buckets)} :
           /\ stream' = r.s
           /\ output' = [err |-> r.err]
           /\ pc' = IF r.err = "" THEN "table_unpack" ELSE "table_failed"
    /\ UNCHANGED <<input, entities>>

\* The blob is copied into a section of a larger stream, as _pack_lbl1_
\* does, and read back from the section's offset, as _unpack_lbl1_ does.
CallUnpackHashTable ==
    /\ pc = "table_unpack"
    /\ \E r \in {unpack_hash_table(
                      Seek(NewStream(Zeros(BlobOffset) \o stream.buf, input.big),
                           BlobOffset))} :
           /\ stream' = r.s
           /\ output' = [err |-> r.err, dict |-> r.dict]
    /\ pc' = "table_done"
    /\ UNCHANGED <<input, entities>>

NextTable == CallPackHashTable \/ CallUnpackHashTable

SpecTable == InitTable /\ [][NextTable]_vars

\* C6: unpacking the blob that pack_hash_table wrote gives back exactly the
\* mapping position -> label of the list that was packed, whatever bucket
\* each label falls into.
C6_HashTableRoundTrip ==
    /\ pc # "table_failed"
    /\ pc = "table_done" =>
        /\ output.err = ""
        /\ DOMAIN output.dict = {input.labels[k][1] : k \in 1..Len(input.labels)}
        /\ \A k \in 1..Len(input.labels) :
              output.dict[input.labels[k][1]] = input.labels[k][2]

\* Two labels were packed into two different buckets, the one written first
\* being the later in the list, and both came back.
C6_Witness ==
    /\ pc = "table_done"
    /\ Len(input.labels) = 2
    /\ output.err = ""
    /\ calc_hash_bucket_index(input.labels[1][2], input.num_buckets)
         > calc_hash_bucket_index(input.labels[2][2], input.num_buckets)
    /\ Len(input.labels[1][2]) = 255

(***************************************************************************)
(* adapter.py: characters.  A string is a sequence of code points; the     *)
(* three charsets are modelled by what Python's codecs do with them.       *)
(***************************************************************************)
IsSurrogate(cp) == cp >= 55296 /\ cp <= 57343

\* str.encode("utf-8") of one code point
Utf8Encode(cp) ==
    IF IsSurrogate(cp) THEN [err |-> "UnicodeEncodeError", bytes |-> << >>]
    ELSE [err |-> "",
          bytes |->
            IF cp < 128 THEN <<cp>>
            ELSE IF cp < 2048 THEN <<192 + cp \div 64, 128 + (cp % 64)>>
            ELSE IF cp < 65536
            THEN <<224 + cp \div 4096, 128 + ((cp \div 64) % 64), 128 + (cp % 64)>>
            ELSE <<240 + cp \div 262144, 128 + ((cp \div 4096) % 64),
                   128 + ((cp \div 64) % 64), 128 + (cp % 64)>>]

\* str.encode("utf-16-be" / "utf-16-le") of one code point: one 16-bit unit,
\* or a surrogate pair for a code point beyond the basic plane.
Utf16Encode(cp, big) ==
    IF IsSurrogate(cp) THEN [err |-> "UnicodeEncodeError", bytes |-> << >>]
    ELSE [err |-> "",
          bytes |->
            IF cp < 65536 THEN PackU16(cp, big)
            ELSE PackU16(55296 + (cp - 65536) \div 1024, big)
                 \o PackU16(56320 + ((cp - 65536) % 1024), big)]

\* bytes.decode("utf-8") of the bytes __read_utf_8_char__ collected: the one
\* code point whose encoding they are, or UnicodeDecodeError.
\* The code point a UTF-8 sequence of n <= 4 bytes would stand for.
Utf8Candidate(buffer, n) ==
    IF n = 1 THEN buffer[1]
    ELSE IF n = 2 THEN (buffer[1] - 192) * 64 + (buffer[2] - 128)
    ELSE IF n = 3
    THEN (buffer[1] - 224) * 4096 + (buffer[2] - 128) * 64 + (buffer[3] - 128)
    ELSE (buffer[1] - 240) * 262144 + (buffer[2] - 128) * 4096
         + (buffer[3] - 128) * 64 + (buffer[4] - 128)

Utf8Decode(buffer) ==
    IF Len(buffer) > 4 THEN [err |-> "UnicodeDecodeError", ch |-> << >>]
    ELSE With(Utf8Candidate(buffer, Len(buffer)), LAMBDA cand :
             IF cand >= 0 /\ cand <= 1114111
                /\ Utf8Encode(cand) = [err |-> "", bytes |-> buffer]
             THEN [err |-> "", ch |-> <<cand>>]
             ELSE [err |-> "UnicodeDecodeError", ch |-> << >>])

\* How many bytes __read_utf_8_char__ reads after the first one.
Utf8Following(byte) ==
    IF byte >= 254 THEN 0
    ELSE IF byte >= 252 THEN 5
    ELSE IF byte >= 248 THEN 4
    ELSE IF byte >= 240 THEN 3
    ELSE IF byte >= 224 THEN 2
    ELSE IF byte >= 192 THEN 1
    ELSE 0

\* __read_utf_8_char__: ch is the string that was read (one code point).
read_utf_8_char(s) ==
    With(read_u8(s), LAMBDA byte :
        IF byte.err # "" THEN [err |-> byte.err, s |-> byte.s, ch |-> << >>]
        ELSE With(ReadBytes(byte.s, Utf8Following(byte.v)), LAMBDA more :
             With(Utf8Decode(<<byte.v>> \o more), LAMBDA dec :
                 [err |-> dec.err, s |-> Skip(byte.s, Len(more)),
                  ch |-> dec.ch])))

\* __read_utf_16_be_char__ / __read_utf_16_le_char__: read(2) and decode.
\* No byte left decodes to the empty string; one byte, or a unit that is
\* half of a surrogate pair, raises UnicodeDecodeError.
read_utf_16_char(s, big) ==
    With(ReadBytes(s, 2), LAMBDA buffer :
        IF Len(buffer) = 0 THEN [err |-> "", s |-> s, ch |-> << >>]
        ELSE IF Len(buffer) = 1
        THEN [err |-> "UnicodeDecodeError", s |-> Skip(s, 1), ch |-> << >>]
        ELSE With(UnpackU16(buffer, big), LAMBDA unit :
                 IF IsSurrogate(unit)
                 THEN [err |-> "UnicodeDecodeError", s |-> Skip(s, 2),
                       ch |-> << >>]
                 ELSE [err |-> "", s |-> Skip(s, 2), ch |-> <<unit>>]))

\* LMSAdapter.read_char: the reader the charset selected.
read_char(charset, s) ==
    IF charset = "utf-8" THEN read_utf_8_char(s)
    ELSE read_utf_16_char(s, charset = "utf-16-be")

\* LMSAdapter.write_chars of a string of one code point.
write_chars(charset, s, cp) ==
    With(IF charset = "utf-8" THEN Utf8Encode(cp)
         ELSE Utf16Encode(cp, charset = "utf-16-be"), LAMBDA enc :
        [err |-> enc.err, s |-> Write(s, enc.bytes)])

Backslash == 92
OpenBracket == 91
CloseBracket == 93
TagChar == 14

(***************************************************************************)
(* adapter.py: read_text and write_text of LMSAdapter.  read_tag and       *)
(* write_tag are the ones of the class itself: they raise                  *)
(* NotImplementedError.  "tags" counts the calls of read_tag or write_tag. *)
(***************************************************************************)
\* The loop "while True" of read_text.  When read_char returns the empty
\* string the loop neither appends nor advances: it never returns, which
\* is the outcome "Hang".
RECURSIVE read_text_loop(_, _, _)
read_text_loop(charset, s, text) ==
    With(read_char(charset, s), LAMBDA c :
        IF c.err # "" THEN [err |-> c.err, s |-> c.s, text |-> text, tags |-> 0]
        ELSE IF c.ch = << >>
        THEN [err |-> "Hang", s |-> c.s, text |-> text, tags |-> 0]
        ELSE IF c.ch[1] = 0
        THEN [err |-> "", s |-> c.s, text |-> text, tags |-> 0]
        ELSE IF c.ch[1] = TagChar
        THEN [err |-> "NotImplementedError", s |-> c.s, text |-> text,
              tags |-> 1]
        ELSE read_text_loop(charset, c.s,
                 text \o IF c.ch[1] \in {OpenBracket, CloseBracket, Backslash}
                         THEN <<Backslash, c.ch[1]>> ELSE c.ch))

read_text(charset, s) == read_text_loop(charset, s, << >>)

\* The loop "while index < len(text)" of write_text, and what follows it.
\* index counts from 0 as in the source.
RECURSIVE write_text_loop(_, _, _, _, _, _)
write_text_loop(charset, s, text, index, tag_start, escape) ==
    IF index >= Len(text)
    THEN IF tag_start > 0
         THEN [err |-> "LMSException: Tag not closed", s |-> s, tags |-> 0]
         ELSE IF escape
         THEN [err |-> "LMSException: No character to escape", s |-> s,
               tags |-> 0]
         ELSE write_chars(charset, s, 0) @@ [tags |-> 0]
    ELSE With(text[index + 1], LAMBDA ch :
             IF ~escape /\ ch = Backslash
             THEN write_text_loop(charset, s, text, index + 1, tag_start, TRUE)
             ELSE IF ~escape /\ ch = CloseBracket
             THEN IF tag_start > 0
                  THEN [err |-> "NotImplementedError", s |-> s, tags |-> 1]
                  ELSE [err |-> "LMSException: Tag closer found without opener",
                        s |-> s, tags |-> 0]
             ELSE IF ~escape /\ ch = OpenBracket
             THEN write_text_loop(charset, s, text, index + 1, index + 1, FALSE)
             ELSE IF escape \/ tag_start = 0
             THEN With(write_chars(charset, s, ch), LAMBDA w :
                      IF w.err # "" THEN [err |-> w.err, s |-> s, tags |-> 0]
                      ELSE write_text_loop(charset, w.s, text, index + 1,
                                           tag_start, FALSE))
             ELSE write_text_loop(charset, s, text, index + 1, tag_start,
                                  FALSE))

\* write_text entering its loop as if a backslash had just been read.
write_text_escaped(charset, s, text) ==
    write_text_loop(charset, s, text, 0, 0, TRUE)

write_text(charset, s, text) == write_text_loop(charset, s, text, 0, 0, FALSE)

\* The characters of the texts: a letter, the three characters write_text
\* treats specially, and characters of two, three and four UTF-8 bytes, the
\* last of which lies beyond the basic plane.
Letter == 97
TextChars == {Letter, Backslash, OpenBracket, CloseBracket, 233, 8364, 128512}
Charsets == {"utf-8", "utf-16-be", "utf-16-le"}

InitText ==
    /\ pc = "text_write"
    /\ input \in [text : SeqsUpTo(TextChars, MaxTextLen), charset : Charsets]
    /\ output = Null
    /\ stream = NewStream(<< >>, input.charset # "utf-16-le")
    /\ document = Null /\ flows = Null /\ binary = Null

CallWriteText ==
    /\ pc = "text_write"
    /\ \E w \in {write_text(input.charset, stream, input.text)} :
           /\ stream' = w.s
           /\ output' = [err |-> w.err, tags |-> w.tags]
           /\ pc' = IF w.err = "" THEN "text_read" ELSE "text_failed"
    /\ UNCHANGED <<input, entities>>

\* The text is read back from where it was written.
CallReadText ==
    /\ pc = "text_read"
    /\ \E r \in {read_text(input.charset, Seek(stream, 0))} :
           /\ stream' = r.s
           /\ output' = [err |-> r.err, text |-> r.text,
                         tags |-> output.tags + r.tags]
    /\ pc' = "text_done"
    /\ UNCHANGED <<input, entities>>

NextText == CallWriteText \/ CallReadText

SpecText == InitText /\ [][NextText]_vars

\* A text made only of ordinary characters and of the sequences \[ \] \\ .
RECURSIVE EscapedOnly(_)
EscapedOnly(text) ==
    IF Len(text) = 0 THEN TRUE
    ELSE IF text[1] = Backslash
    THEN /\ Len(text) >= 2
         /\ text[2] \in {Backslash, OpenBracket, CloseBracket}
         /\ EscapedOnly(SubSeq(text, 3, Len(text)))
    ELSE /\ text[1] \notin {OpenBracket, CloseBracket}
         /\ EscapedOnly(Tail(text))

\* C7: for every text made only of ordinary characters and the escaped
\* sequences \[ \] \\ , write_text followed by read_text returns the same
\* string and neither write_tag nor read_tag is called.
C7_EscapedTextRoundTrip ==
    EscapedOnly(input.text) =>
        /\ pc # "text_failed"
        /\ pc = "text_done" =>
              /\ output.err = ""
              /\ output.text = input.text
              /\ output.tags = 0

\* What does hold: the round trip of such a text in UTF-8, and in UTF-16
\* when no character lies beyond the basic plane.
EscapedTextRoundTripInBasicPlane ==
    /\ EscapedOnly(input.text)
    /\ \/ input.charset = "utf-8"
       \/ \A k \in 1..Len(input.text) : input.text[k] < 65536
    => /\ pc # "text_failed"
       /\ pc = "text_done" =>
             /\ output.err = ""
             /\ output.text = input.text
             /\ output.tags = 0

\* What the left-to-right scan of a text ends with, in the words of the
\* transcoding protocol: a backslash makes the next character literal, an
\* unescaped [ opens a span, an unescaped ] closes the open span and hands
\* it to the tag writer of the adapter ("TagWriter", where the scan of this
\* library stops because its adapter has no tag writer).
RECURSIVE ScanText(_, _, _, _)
ScanText(text, k, open, esc) ==
    IF k > Len(text)
    THEN IF open THEN "UnterminatedTag"
         ELSE IF esc THEN "DanglingEscape"
         ELSE "Terminated"
    ELSE IF esc THEN ScanText(text, k + 1, open, FALSE)
    ELSE IF text[k] = Backslash THEN ScanText(text, k + 1, open, TRUE)
    ELSE IF text[k] = CloseBracket
    THEN IF open THEN "TagWriter" ELSE "UnbalancedBracket"
    ELSE IF text[k] = OpenBracket THEN ScanText(text, k + 1, TRUE, FALSE)
    ELSE ScanText(text, k + 1, open, FALSE)

\* The exception write_text ended with, "" when it returned.
WriteTextError == IF pc = "text_failed" THEN output.err ELSE ""

\* The bytes of the null character in the charset of the input.
NullTerminator == IF input.charset = "utf-8" THEN <<0>> ELSE <<0, 0>>

\* The buffer ends with the null character.
EndsWithNull(buf) ==
    /\ Len(buf) >= Len(NullTerminator)
    /\ SubSeq(buf, Len(buf) - Len(NullTerminator) + 1, Len(buf))
         = NullTerminator

C11_WitnessOpenSpan ==
    /\ pc = "text_failed"
    /\ input.text = <<OpenBracket, Backslash>>
    /\ output.err = "LMSException: Tag not closed"

\* An escaped ] and a letter were written and terminated.
C11_WitnessTerminated ==
    /\ pc = "text_read"
    /\ input.text = <<Backslash, CloseBracket, Letter>>
    /\ EndsWithNull(stream.buf)

(***************************************************************************)
(* msbt.py: LMSDocument.  An adapter is the record of what the adapter     *)
(* class answers: charset, big (is_big_endian), fixed (use_fixed_buckets)  *)
(* and styles (supports_styles).  supports_attributes is False, as in      *)
(* LMSAdapter.  A message is a record of label, text and style.            *)
(***************************************************************************)
MAGIC_MSBT == <<77, 115, 103, 83, 116, 100, 66, 110>>    \* b"MsgStdBn"
MAGIC_LBL1 == <<76, 66, 76, 49>>
MAGIC_TXT2 == <<84, 88, 84, 50>>
MAGIC_ATR1 == <<65, 84, 82, 49>>
MAGIC_ATO1 == <<65, 84, 79, 49>>
MAGIC_TSY1 == <<84, 83, 89, 49>>

\* LMSAdapter.create_stream
create_stream(adapter, initial_capacity) ==
    NewStream(Zeros(initial_capacity), adapter.big)

\* helper.charset_to_encoding
charset_to_encoding(charset) == IF charset = "utf-8" THEN 0 ELSE 1

\* helper.encoding_to_charset
encoding_to_charset(encoding, is_big_endian) ==
    IF encoding = 0 THEN [err |-> "", charset |-> "utf-8"]
    ELSE IF encoding = 1
    THEN [err |-> "",
          charset |-> IF is_big_endian THEN "utf-16-be" ELSE "utf-16-le"]
    ELSE [err |-> "LMSException: Unsupported encoding type", charset |-> ""]

\* The padding loop writing zero bytes.
RECURSIVE PadSectionZero(_)
PadSectionZero(main_stream) ==
    IF StreamSize(main_stream) % 16 # 0
    THEN PadSectionZero(write_u8(main_stream, 0))
    ELSE main_stream

\* "while main_stream.size & 15: main_stream.write_u8(0xAB)"
RECURSIVE PadSection(_)
PadSection(main_stream) ==
    IF StreamSize(main_stream) % 16 # 0
    THEN PadSection(write_u8(main_stream, 171))
    ELSE main_stream

\* "Write section to main stream": magic, size, 8 skipped bytes, the
\* payload, the padding.
WriteSection(main_stream, magic, payload) ==
    PadSection(
        Write(Skip(write_u32(Write(main_stream, magic), Len(payload)), 8),
              payload))

\* The bucket count of LBL1.
Lbl1Buckets(adapter, messages) ==
    IF adapter.fixed THEN 101 ELSE find_greater_prime(Len(messages))

\* What every section packer does with its stream once it is filled, or
\* with the exception that filling it raised.
SectionOrError(main_stream, magic, packed) ==
    IF packed.err # "" THEN [err |-> packed.err, s |-> main_stream]
    ELSE [err |-> "", s |-> WriteSection(main_stream, magic, packed.s.buf)]

_pack_lbl1_(main_stream, adapter, messages) ==
    With(Lbl1Buckets(adapter, messages), LAMBDA num_buckets :
        SectionOrError(main_stream, MAGIC_LBL1,
            pack_hash_table(
                create_stream(adapter, 4 + num_buckets * 8),
                [i \in 1..Len(messages) |-> <<i - 1, messages[i].label>>],
                num_buckets)))

\* "Write all texts": the loop of _pack_txt2_, from message i (from 0) on.
RECURSIVE WriteTexts(_, _, _, _)
WriteTexts(s, adapter, messages, i) ==
    IF i >= Len(messages) THEN [err |-> "", s |-> s]
    ELSE With(write_u32(Seek(s, 4 + i * 4), StreamSize(s)), LAMBDA s1 :
         With(write_text(adapter.charset, Seek(s1, StreamSize(s1)),
                         messages[i + 1].text), LAMBDA w :
             IF w.err # "" THEN [err |-> w.err, s |-> w.s]
             ELSE WriteTexts(w.s, adapter, messages, i + 1)))

_pack_txt2_(main_stream, adapter, messages) ==
    SectionOrError(main_stream, MAGIC_TXT2,
        WriteTexts(write_s32(create_stream(adapter, 4 + Len(messages) * 4),
                             Len(messages)),
                   adapter, messages, 0))

\* "Write all styles"
RECURSIVE WriteStyles(_, _, _)
WriteStyles(s, messages, i) ==
    IF i > Len(messages) THEN s
    ELSE WriteStyles(write_s32(s, messages[i].style), messages, i + 1)

_pack_tsy1_(main_stream, adapter, messages) ==
    WriteSection(main_stream, MAGIC_TSY1,
        WriteStyles(create_stream(adapter, Len(messages) * 4), messages, 1).buf)

\* The header both makebin write before the sections: the magic, the BOM,
\* "encoding" and the version, the counts left at 0.  LMSFlows.makebin skips
\* the encoding byte, which stays 0.
WriteHeader(s, magic, encoding) ==
    LET s2 == write_u16(Write(s, magic), 65279)
        s5 == write_u8(write_u8(Skip(s2, 2), encoding), 3)
        s8 == write_u32(Skip(write_u16(s5, 0), 2), 0)
    IN  Skip(s8, 10)

\* The update of the header that leaves the file size at 0.
PatchHeaderCountOnly(s, num_sections) ==
    write_u16(Seek(s, 14), num_sections)

\* "Update header and get result"
PatchHeader(s, num_sections) ==
    With(write_u16(Seek(s, 14), num_sections), LAMBDA s1 :
        write_u32(Seek(s1, 18), StreamSize(s1)))

\* LMSDocument.makebin: buf is the bytes it returns.
msbt_makebin(adapter, messages) ==
    With(_pack_lbl1_(WriteHeader(create_stream(adapter, 32), MAGIC_MSBT,
                                 charset_to_encoding(adapter.charset)),
                     adapter, messages), LAMBDA lbl1 :
        IF lbl1.err # "" THEN [err |-> lbl1.err, buf |-> << >>]
        ELSE With(_pack_txt2_(lbl1.s, adapter, messages), LAMBDA txt2 :
            IF txt2.err # "" THEN [err |-> txt2.err, buf |-> << >>]
            ELSE IF adapter.styles
            THEN [err |-> "",
                  buf |-> PatchHeader(_pack_tsy1_(txt2.s, adapter, messages),
                                      3).buf]
            ELSE [err |-> "", buf |-> PatchHeader(txt2.s, 2).buf]))

(***************************************************************************)
(* LMSDocument._unpack_.  The document being filled is a record: err (""   *)
(* while no exception was raised), the stream s, _messages_, _temp_labels_ *)
(* and _temp_styles_ with a flag each telling whether the attribute was    *)
(* ever assigned (__init__ only annotates them), the adapter's charset and *)
(* byte order, and dispatched, the number of section unpackers entered.    *)
(***************************************************************************)
NewDocument(adapter) ==
    [err |-> "", s |-> NewStream(<< >>, TRUE), messages |-> << >>,
     labels_set |-> FALSE, temp_labels |-> << >>,
     styles_set |-> FALSE, temp_styles |-> << >>,
     charset |-> "utf-16-be", big |-> TRUE, dispatched |-> 0]

\* LMSMessage.__init__
LMSMessage(text) == [label |-> << >>, text |-> text, style |-> 0 - 1]

Raise(d, err) == [d EXCEPT !.err = err]

\* "Verify BOM" where every value is taken for 0xFEFF.
VerifyBomLenient(s, bom) ==
    [err |-> "", s |-> s]

\* "Verify BOM": 0xFFFE swaps the byte order of the stream, any value other
\* than 0xFEFF raises BOMException.
VerifyBom(s, bom) ==
    IF bom = 65534 THEN [err |-> "", s |-> [s EXCEPT !.big = ~s.big]]
    ELSE IF bom # 65279 THEN [err |-> "BOMException", s |-> s]
    ELSE [err |-> "", s |-> s]

\* "Verify header contents" without the check of the file size.
VerifyHeaderVersionOnly(version, file_size, size) ==
    IF version # 3 THEN "LMSException: Unsupported version" ELSE ""

\* "Verify header contents"
VerifyHeader(version, file_size, size) ==
    IF version # 3 THEN "LMSException: Unsupported version"
    ELSE IF file_size # size THEN "LMSException: file size"
    ELSE ""

\* What both _unpack_ do with the header, up to the two checks on it.  The
\* message table reads "encoding" at 0xC and the version at 0xD; the flow
\* graph skips three bytes and reads the version at 0xD.
\* The header that was not read to its end: an exception was raised.
HeaderError(err, s) ==
    [err |-> err, s |-> s, encoding |-> 0, num_sections |-> 0]

\* The fields after the BOM, read from the stream s2 in the byte order the
\* BOM selected, and the check of version and file size.
ReadHeaderFields(s2) ==
    With(read_u8(Skip(s2, 2)), LAMBDA encoding :
    With(read_u8(encoding.s), LAMBDA version :
    With(read_u16(version.s), LAMBDA num_sections :
    With(read_u32(Skip(num_sections.s, 2)), LAMBDA file_size :
    With(Skip(file_size.s, 10), LAMBDA s3 :
    With(VerifyHeader(version.v, file_size.v, StreamSize(s3)), LAMBDA checked :
        IF encoding.err # "" THEN HeaderError(encoding.err, s2)
        ELSE IF version.err # "" THEN HeaderError(version.err, s2)
        ELSE IF num_sections.err # "" THEN HeaderError(num_sections.err, s2)
        ELSE IF file_size.err # "" THEN HeaderError(file_size.err, s2)
        ELSE IF checked # "" THEN HeaderError(checked, s3)
        ELSE [err |-> "", s |-> s3, encoding |-> encoding.v,
              num_sections |-> num_sections.v]))))))

ReadHeader(buffer, magic) ==
    With(Skip(NewStream(buffer, TRUE), Min(8, Len(buffer))), LAMBDA s1 :
        IF SubSeq(buffer, 1, Min(8, Len(buffer))) # magic
        THEN HeaderError("Exception: wrong magic", s1)
        ELSE With(read_u16(s1), LAMBDA bom :
            IF bom.err # "" THEN HeaderError(bom.err, s1)
            ELSE With(VerifyBom(bom.s, bom.v), LAMBDA verified :
                IF verified.err # "" THEN HeaderError(verified.err, verified.s)
                ELSE ReadHeaderFields(verified.s))))

\* "self._temp_labels_ = unpack_hash_table(stream)" of _unpack_lbl1_ and
\* of _unpack_fen1_.
AssignLabels(d, table) ==
    IF table.err # "" THEN [d EXCEPT !.err = table.err, !.s = table.s]
    ELSE [d EXCEPT !.s = table.s, !.labels_set = TRUE,
                   !.temp_labels = table.dict]

_unpack_lbl1_(d, offset, size) ==
    AssignLabels(d, unpack_hash_table(Seek(d.s, offset)))

\* The loop of _unpack_txt2_, from entry i on.
RECURSIVE ReadTexts(_, _, _, _)
ReadTexts(d, offset, i, num_entries) ==
    IF i >= num_entries THEN d
    ELSE With(read_u32(Seek(d.s, offset + 4 + i * 4)), LAMBDA off_text :
             IF off_text.err # "" THEN Raise(d, off_text.err)
             ELSE With(read_text(d.charset,
                                 Seek(off_text.s, offset + off_text.v)),
                       LAMBDA text :
                 IF text.err # "" THEN Raise(d, text.err)
                 ELSE ReadTexts(
                          [d EXCEPT !.s = text.s,
                              !.messages = Append(@, LMSMessage(text.text))],
                          offset, i + 1, num_entries)))

_unpack_txt2_(d, offset, size) ==
    With(read_s32(Seek(d.s, offset)), LAMBDA num_entries :
        IF num_entries.err # "" THEN Raise(d, num_entries.err)
        ELSE ReadTexts([d EXCEPT !.s = num_entries.s], offset, 0,
                       num_entries.v))

\* supports_attributes is False.
_unpack_atr1_(d, offset, size) ==
    Raise(d, "LMSException: attributes not supported")

_unpack_ato1_(d, offset, size) == Raise(d, "NotImplementedError")

\* The loop of _unpack_tsy1_.
RECURSIVE ReadStyles(_, _, _)
ReadStyles(d, num_entries, all_styles) ==
    IF num_entries <= 0
    THEN [d EXCEPT !.styles_set = TRUE, !.temp_styles = all_styles]
    ELSE With(read_s32(d.s), LAMBDA style :
             IF style.err # "" THEN Raise(d, style.err)
             ELSE ReadStyles([d EXCEPT !.s = style.s], num_entries - 1,
                             Append(all_styles, style.v)))

_unpack_tsy1_(d, adapter, offset, size) ==
    IF ~adapter.styles THEN Raise(d, "LMSException: styles not supported")
    ELSE ReadStyles([d EXCEPT !.s = Seek(d.s, offset)], size \div 4, << >>)

Entered(d) == [d EXCEPT !.dispatched = @ + 1]

\* "Parse all sections": the loop of LMSDocument._unpack_ over the
\* sections that are left.
\* The header of the section at the cursor: the magic, the size, and the
\* stream s at the payload, whose position is section_offset.
ReadSectionHeader(s) ==
    With(read_u32(AfterRead(s, 4)), LAMBDA section_size :
        [err |-> section_size.err, magic |-> ReadBytes(s, 4),
         size |-> section_size.v, s |-> Skip(section_size.s, 8)])

\* "stream.seek(current_section_offset)" after a section was unpacked.
SeekNextSection(d, section_offset, size) ==
    IF d.err # "" THEN d
    ELSE [d EXCEPT !.s = Seek(@, ((section_offset + size + 15) \div 16) * 16)]

\* The unpacker that the magic of a section selects, if any.
UnpackMsbtSection(d1, adapter, magic, section_offset, size) ==
    IF magic = MAGIC_LBL1
    THEN _unpack_lbl1_(Entered(d1), section_offset, size)
    ELSE IF magic = MAGIC_TXT2
    THEN _unpack_txt2_(Entered(d1), section_offset, size)
    ELSE IF magic = MAGIC_ATR1
    THEN _unpack_atr1_(Entered(d1), section_offset, size)
    ELSE IF magic = MAGIC_ATO1
    THEN _unpack_ato1_(Entered(d1), section_offset, size)
    ELSE IF magic = MAGIC_TSY1
    THEN _unpack_tsy1_(Entered(d1), adapter, section_offset, size)
    ELSE d1

RECURSIVE UnpackMsbtSections(_, _, _)
UnpackMsbtSections(d, adapter, left) ==
    IF left = 0 \/ d.err # "" THEN d
    ELSE With(ReadSectionHeader(d.s), LAMBDA h :
             IF h.err # "" THEN Raise(d, h.err)
             ELSE UnpackMsbtSections(
                      SeekNextSection(
                          UnpackMsbtSection([d EXCEPT !.s = h.s], adapter,
                                            h.magic, h.s.pos, h.size),
                          h.s.pos, h.size),
                      adapter, left - 1))

\* "Join messages, labels, attributes & styles", from message i (from 0) on.
\* create_default_style raises NotImplementedError in LMSAdapter.
RECURSIVE JoinMessages(_, _, _)
JoinMessages(d, adapter, i) ==
    IF i >= Len(d.messages) THEN d
    ELSE IF DOMAIN d.temp_labels # {} /\ i \notin DOMAIN d.temp_labels
    THEN Raise(d, "LMSException: No label for message")
    ELSE IF adapter.styles /\ i >= Len(d.temp_styles)
    THEN Raise(d, "NotImplementedError")
    ELSE LET label == IF DOMAIN d.temp_labels # {} THEN d.temp_labels[i]
                      ELSE d.messages[i + 1].label
             style == IF adapter.styles THEN d.temp_styles[i + 1]
                      ELSE d.messages[i + 1].style
         IN  JoinMessages([d EXCEPT !.messages[i + 1].label = label,
                                    !.messages[i + 1].style = style],
                          adapter, i + 1)

\* LMSDocument._unpack_ on a new document: msbt_from_buffer.
\* "Verify that all required sections are present" and the join.
VerifyAndJoinMessages(d2, adapter) ==
    IF d2.err # "" THEN d2
    ELSE IF ~d2.labels_set THEN Raise(d2, "AttributeError")
    ELSE IF adapter.styles /\ ~d2.styles_set THEN Raise(d2, "AttributeError")
    ELSE JoinMessages(d2, adapter, 0)

msbt_from_buffer(adapter, buffer) ==
    With(ReadHeader(buffer, MAGIC_MSBT), LAMBDA h :
        IF h.err # "" THEN [NewDocument(adapter) EXCEPT !.err = h.err, !.s = h.s]
        ELSE With(encoding_to_charset(h.encoding, h.s.big), LAMBDA charset :
            IF charset.err # ""
            THEN [NewDocument(adapter) EXCEPT !.err = charset.err, !.s = h.s,
                                              !.big = h.s.big]
            ELSE VerifyAndJoinMessages(
                     UnpackMsbtSections(
                         [NewDocument(adapter) EXCEPT
                             !.s = Seek(h.s, 32), !.big = h.s.big,
                             !.charset = charset.charset],
                         adapter, h.num_sections),
                     adapter)))

(***************************************************************************)
(* The life of a document: it is constructed with an adapter class, edited *)
(* (new_message, assignments to a message, the charset and byte order      *)
(* setters), packed by makebin, and the bytes are unpacked again by        *)
(* msbt_from_buffer with the same adapter class.                           *)
(*                                                                         *)
(* An adapter class is LMSAdapter or a subclass of it that overrides       *)
(* use_fixed_buckets or supports_styles; a subclass that supports styles   *)
(* also overrides create_default_style, which answers DefaultStyle here.   *)
(***************************************************************************)
NewAdapter(fixed, styles) ==
    [charset |-> "utf-16-be", big |-> TRUE, fixed |-> fixed, styles |-> styles]

DefaultStyle == 0

\* new_message without the look for a message that has the label.
new_message_unchecked(doc, label) ==
    [err |-> "",
     doc |-> [doc EXCEPT !.messages =
                  Append(@, [LMSMessage(<< >>) EXCEPT
                                !.label = label,
                                !.style = IF doc.adapter.styles
                                          THEN DefaultStyle ELSE @])]]

\* LMSDocument.new_message
new_message(doc, label) ==
    IF \E i \in 1..Len(doc.messages) : doc.messages[i].label = label
    THEN [err |-> "LMSException: label exists", doc |-> doc]
    ELSE LET message ==
                 [LMSMessage(<< >>) EXCEPT
                     !.label = label,
                     !.style = IF doc.adapter.styles THEN DefaultStyle ELSE @]
         IN  [err |-> "", doc |-> [doc EXCEPT !.messages = Append(@, message)]]

\* LMSAdapter.set_big_endian
set_big_endian(adapter) ==
    [adapter EXCEPT !.charset = IF @ = "utf-16-le" THEN "utf-16-be" ELSE @,
                    !.big = TRUE]

\* LMSAdapter.set_little_endian
set_little_endian(adapter) ==
    [adapter EXCEPT !.charset = IF @ = "utf-16-be" THEN "utf-16-le" ELSE @,
                    !.big = FALSE]

\* The labels, texts and styles the messages are given.  The texts: empty,
\* a letter, an escaped bracket, an escaped letter, a character outside the
\* basic plane, and a tag.
DocLabels == {<< >>, <<65>>, <<65, 66>>}
DocTexts ==
    {<< >>, <<Letter>>, <<Backslash, OpenBracket>>, <<Backslash, Letter>>,
     <<128512>>, <<OpenBracket, Letter, CloseBracket>>}
DocStyles == {DefaultStyle, 7}

InitMsbt ==
    /\ pc = "msbt_edit"
    /\ input = Null
    /\ output = Null
    /\ stream = Null
    /\ document \in {[adapter |-> NewAdapter(fixed, styles),
                      messages |-> << >>] : fixed, styles \in BOOLEAN}
    /\ flows = Null
    /\ binary = Null

NewMessage ==
    /\ pc = "msbt_edit"
    /\ Len(document.messages) < MaxMessages
    /\ \E label \in DocLabels :
          \E r \in {new_message(document, label)} :
              /\ document' = r.doc
              /\ output' = [err |-> r.err]
    /\ UNCHANGED <<pc, input, stream, flows, binary>>

\* "message.text = ..." on a message of the document.
AssignText ==
    /\ pc = "msbt_edit"
    /\ \E i \in 1..Len(document.messages), text \in DocTexts :
          document' = [document EXCEPT !.messages[i].text = text]
    /\ UNCHANGED <<pc, input, output, stream, flows, binary>>

\* "message.style = ..." on a message of a document whose adapter keeps
\* styles.
AssignStyle ==
    /\ pc = "msbt_edit"
    /\ document.adapter.styles
    /\ \E i \in 1..Len(document.messages), style \in DocStyles :
          document' = [document EXCEPT !.messages[i].style = style]
    /\ UNCHANGED <<pc, input, output, stream, flows, binary>>

\* LMSDocument.charset, the setter.
SetCharset ==
    /\ pc = "msbt_edit"
    /\ \E charset \in Charsets :
          document' = [document EXCEPT !.adapter.charset = charset]
    /\ UNCHANGED <<pc, input, output, stream, flows, binary>>

SetBigEndian ==
    /\ pc = "msbt_edit"
    /\ document' = [document EXCEPT !.adapter = set_big_endian(@)]
    /\ UNCHANGED <<pc, input, output, stream, flows, binary>>

SetLittleEndian ==
    /\ pc = "msbt_edit"
    /\ document' = [document EXCEPT !.adapter = set_little_endian(@)]
    /\ UNCHANGED <<pc, input, output, stream, flows, binary>>

\* msbt_pack_buffer
MsbtMakeBin ==
    /\ pc = "msbt_edit"
    /\ \E r \in {msbt_makebin(document.adapter, document.messages)} :
           /\ binary' = r.buf
           /\ output' = [err |-> r.err]
           /\ pc' = IF r.err = "" THEN "msbt_packed" ELSE "msbt_failed"
    /\ UNCHANGED <<input, stream, document, flows>>

\* msbt_from_buffer with a new adapter of the same class.
MsbtFromBuffer ==
    /\ pc = "msbt_packed"
    /\ \E d \in {msbt_from_buffer(
                      NewAdapter(document.adapter.fixed, document.adapter.styles),
                      binary)} :
           output' = [err |-> d.err, messages |-> d.messages,
                      charset |-> d.charset, big |-> d.big,
                      dispatched |-> d.dispatched]
    /\ pc' = "msbt_done"
    /\ UNCHANGED <<input, stream, document, flows, binary>>

NextMsbt ==
    \/ NewMessage
    \/ AssignText
    \/ AssignStyle
    \/ SetCharset
    \/ SetBigEndian
    \/ SetLittleEndian
    \/ MsbtMakeBin
    \/ MsbtFromBuffer

SpecMsbt == InitMsbt /\ [][NextMsbt]_vars

\* C1: whenever makebin has packed a document and msbt_from_buffer has
\* unpacked the bytes, unpacking succeeded and returned the messages of the
\* document: as many, in the same order, each with the same label, text
\* and style.  (The labels of a document are distinct ASCII strings of at
\* most 255 bytes, and makebin packs only texts whose brackets are
\* balanced; no adapter of the model keeps attributes.)
C1_DocumentRoundTrip ==
    pc = "msbt_done" =>
        /\ output.err = ""
        /\ output.messages = document.messages

\* The round trip of the documents whose adapter has a charset that agrees
\* with its byte order and whose texts have neither a character outside
\* the basic plane in a 16-bit charset nor a backslash before a letter.
PlainText(charset, text) ==
    /\ charset # "utf-8" => \A i \in 1..Len(text) : text[i] < 65536
    /\ \A i \in 1..Len(text) :
          (text[i] = Backslash /\ i < Len(text)) => text[i + 1] # Letter

DocumentRoundTripOfPlainTexts ==
    (/\ pc = "msbt_done"
     /\ document.adapter.charset = "utf-16-be" => document.adapter.big
     /\ document.adapter.charset = "utf-16-le" => ~document.adapter.big
     /\ \A i \in 1..Len(document.messages) :
           PlainText(document.adapter.charset, document.messages[i].text))
    => /\ output.err = ""
       /\ output.messages = document.messages

(***************************************************************************)
(* msbf.py: the nodes of a flowchart.  A node is a record of its variant   *)
(* (node_type), its five slots arg[1..5] (arg0..arg4), next_node,          *)
(* next_node_else and label.  A reference to a node is the position of     *)
(* the node in the sequence of all nodes of the graph; NoNode is None.     *)
(***************************************************************************)
NoNode == 0
NoIndex == 65535         \* 0xFFFF

MessageType == 1
BranchType == 2
EventType == 3
EntryType == 4

\* LMSFlowNode.__init__
LMSFlowNode(type) ==
    [type |-> type, arg |-> <<0, 0, 0, 0, 0>>, next_node |-> NoNode,
     next_node_else |-> NoNode, label |-> << >>]

LMSEntryNode == [LMSFlowNode(EntryType) EXCEPT !.arg[2] = NoIndex]

LMSMessageNode ==
    [LMSFlowNode(MessageType) EXCEPT !.arg[2] = 136, !.arg[3] = NoIndex,
                                     !.arg[4] = NoIndex]

LMSBranchNode == [LMSFlowNode(BranchType) EXCEPT !.arg[2] = 2]

LMSEventNode == [LMSFlowNode(EventType) EXCEPT !.arg[3] = NoIndex]

NewNodeOfType(type) ==
    IF type = MessageType THEN LMSMessageNode
    ELSE IF type = BranchType THEN LMSBranchNode
    ELSE IF type = EventType THEN LMSEventNode
    ELSE LMSEntryNode

MAGIC_MSBF == <<77, 115, 103, 70, 108, 119, 66, 110>>    \* b"MsgFlwBn"
MAGIC_FLW2 == <<70, 76, 87, 50>>
MAGIC_FEN1 == <<70, 69, 78, 49>>
MAGIC_REF1 == <<82, 69, 70, 49>>

\* list.index: the position (from 0) of the first occurrence.
IndexOf(list, x) == (CHOOSE i \in 1..Len(list) : list[i] = x /\
                        \A j \in 1..(i - 1) : list[j] # x) - 1

InList(list, x) == \E i \in 1..Len(list) : list[i] = x

\* One iteration of "while len(remaining_nodes)" in _pack_flw2_ where the
\* node that is popped is appended to the table without looking it up.
FlattenStepAlwaysAppend(f) ==
    LET node  == Head(f.remaining_nodes)
        next_node == f.nodes[node].next_node
        next_node_else == f.nodes[node].next_node_else
    IN  With(Append(f.temp_nodes, node), LAMBDA temp1 :
        With(IF next_node # NoNode /\ ~InList(temp1, next_node)
             THEN Append(Tail(f.remaining_nodes), next_node)
             ELSE Tail(f.remaining_nodes), LAMBDA rem2 :
            [f EXCEPT
                !.temp_nodes = temp1,
                !.remaining_nodes =
                    IF /\ f.nodes[node].type = BranchType
                       /\ next_node_else # NoNode
                       /\ ~InList(temp1, next_node_else)
                    THEN Append(rem2, next_node_else) ELSE rem2]))

\* One iteration of "while len(remaining_nodes)" in _pack_flw2_ where a
\* successor is looked up in the work queue instead of the node table.
FlattenStepQueueLookup(f) ==
    LET node  == Head(f.remaining_nodes)
        next_node == f.nodes[node].next_node
        next_node_else == f.nodes[node].next_node_else
    IN  With(IF ~InList(f.temp_nodes, node)
             THEN Append(f.temp_nodes, node) ELSE f.temp_nodes, LAMBDA temp1 :
        With(IF next_node # NoNode /\ ~InList(Tail(f.remaining_nodes), next_node)
             THEN Append(Tail(f.remaining_nodes), next_node)
             ELSE Tail(f.remaining_nodes), LAMBDA rem2 :
            [f EXCEPT
                !.temp_nodes = temp1,
                !.remaining_nodes =
                    IF /\ f.nodes[node].type = BranchType
                       /\ next_node_else # NoNode
                       /\ ~InList(rem2, next_node_else)
                    THEN Append(rem2, next_node_else) ELSE rem2]))

\* One iteration of "while len(remaining_nodes)" in _pack_flw2_.
FlattenStep(f) ==
    LET node  == Head(f.remaining_nodes)
        next_node == f.nodes[node].next_node
        next_node_else == f.nodes[node].next_node_else
    IN  With(IF ~InList(f.temp_nodes, node)
             THEN Append(f.temp_nodes, node) ELSE f.temp_nodes, LAMBDA temp1 :
        With(IF next_node # NoNode /\ ~InList(temp1, next_node)
             THEN Append(Tail(f.remaining_nodes), next_node)
             ELSE Tail(f.remaining_nodes), LAMBDA rem2 :
            [f EXCEPT
                !.temp_nodes = temp1,
                !.remaining_nodes =
                    IF /\ f.nodes[node].type = BranchType
                       /\ next_node_else # NoNode
                       /\ ~InList(temp1, next_node_else)
                    THEN Append(rem2, next_node_else) ELSE rem2]))

\* get_node_index counting the positions of the table from one.
get_node_index_from_one(f, node) ==
    IF node = NoNode THEN NoIndex ELSE IndexOf(f.temp_nodes, node) + 1

\* get_node_index answering the length of the table for None.
get_node_index_none_as_length(f, node) ==
    IF node = NoNode THEN Len(f.temp_nodes) ELSE IndexOf(f.temp_nodes, node)

\* get_node_index of _pack_flw2_
get_node_index(f, node) ==
    IF node = NoNode THEN NoIndex ELSE IndexOf(f.temp_nodes, node)

\* LMSFlowNode.write, after the node_type.
WriteNode(s, node) ==
    LET s0 == write_u16(s, node.type)
        s2 == write_u16(write_u16(s0, node.arg[1]), node.arg[2])
        s4 == write_u16(write_u16(s2, node.arg[3]), node.arg[4])
    IN  write_u16(s4, node.arg[5])

\* "Write all nodes": the loop over _temp_nodes_ from position i on.  It
\* stores the index of the successor in the node, appends the two indices
\* of a Branch to _temp_indices_, and writes the node.
RECURSIVE WriteNodes(_, _, _)
WriteNodes(f, s, i) ==
    IF i > Len(f.temp_nodes) THEN [f |-> f, s |-> s]
    ELSE With(f.nodes[f.temp_nodes[i]], LAMBDA node :
         With(get_node_index(f, node.next_node), LAMBDA next :
         With(IF node.type = EntryType THEN [node EXCEPT !.arg[2] = next]
              ELSE IF node.type = MessageType
              THEN [node EXCEPT !.arg[4] = next]
              ELSE IF node.type = BranchType
              THEN [node EXCEPT !.arg[5] = Len(f.temp_indices)]
              ELSE [node EXCEPT !.arg[3] = next], LAMBDA node1 :
             WriteNodes(
                 [f EXCEPT
                     !.nodes[f.temp_nodes[i]] = node1,
                     !.temp_indices =
                         IF node.type = BranchType
                         THEN @ \o <<next,
                                     get_node_index(f, node.next_node_else)>>
                         ELSE @],
                 WriteNode(s, node1), i + 1))))

\* "Write branch indices"
RECURSIVE WriteIndices(_, _, _)
WriteIndices(s, indices, i) ==
    IF i > Len(indices) THEN s
    ELSE WriteIndices(write_u16(s, indices[i]), indices, i + 1)

\* The same without "stream.seek(0x0002)" and the write of the number of
\* branch indices.
WriteFlw2NoIndexCount(main_stream, f) ==
    With(WriteNodes(f,
             Skip(write_u16(create_stream(f.adapter,
                                          8 + Len(f.temp_nodes) * 12),
                            Len(f.temp_nodes)), 6),
             1), LAMBDA w :
        [f |-> w.f,
         s |-> WriteSection(main_stream, MAGIC_FLW2,
                   WriteIndices(w.s, w.f.temp_indices, 1).buf)])

\* _pack_flw2_ after the flattening: from "Prepare header and stream" on.
WriteFlw2(main_stream, f) ==
    With(WriteNodes(f,
             Skip(write_u16(create_stream(f.adapter,
                                          8 + Len(f.temp_nodes) * 12),
                            Len(f.temp_nodes)), 6),
             1), LAMBDA w :
        [f |-> w.f,
         s |-> WriteSection(main_stream, MAGIC_FLW2,
                   write_u16(Seek(WriteIndices(w.s, w.f.temp_indices, 1), 2),
                             Len(w.f.temp_indices)).buf)])

_pack_fen1_(main_stream, f) ==
    With(IF f.adapter.fixed THEN 59
         ELSE find_greater_prime(Len(f.flowcharts)), LAMBDA num_buckets :
        SectionOrError(main_stream, MAGIC_FEN1,
            pack_hash_table(
                create_stream(f.adapter, 4 + num_buckets * 8),
                [i \in 1..Len(f.flowcharts) |->
                    <<IndexOf(f.temp_nodes, f.flowcharts[i]),
                      f.nodes[f.flowcharts[i]].label>>],
                num_buckets)))

\* LMSFlows.makebin after the flattening of _pack_flw2_: the rest of
\* _pack_flw2_, _pack_fen1_ and the update of the header.
MsbfFinish(main_stream, f) ==
    With(WriteFlw2(main_stream, f), LAMBDA flw2 :
    With(_pack_fen1_(flw2.s, flw2.f), LAMBDA fen1 :
        IF fen1.err # "" THEN [err |-> fen1.err, f |-> flw2.f, buf |-> << >>]
        ELSE [err |-> "", f |-> flw2.f, buf |-> PatchHeader(fen1.s, 2).buf]))

\* The whole of _pack_flw2_'s flattening: "for flowchart in
\* self._flowcharts_", from flowchart root_i (from 0) on.
RECURSIVE FlattenWhile(_)
FlattenWhile(f) ==
    IF Len(f.remaining_nodes) = 0 THEN f ELSE FlattenWhile(FlattenStep(f))

RECURSIVE FlattenFrom(_, _)
FlattenFrom(f, root_i) ==
    IF root_i >= Len(f.flowcharts) THEN f
    ELSE FlattenFrom(
             FlattenWhile([f EXCEPT !.remaining_nodes =
                                        <<f.flowcharts[root_i + 1]>>]),
             root_i + 1)

\* LMSFlows.makebin where _pack_flw2_ keeps the two temporary lists of the
\* call before.
msbf_makebin_keeping_lists(f) ==
    MsbfFinish(WriteHeader(create_stream(f.adapter, 32), MAGIC_MSBF, 0),
               FlattenFrom(f, 0))

\* LMSFlows.makebin in one piece.
msbf_makebin(f) ==
    MsbfFinish(WriteHeader(create_stream(f.adapter, 32), MAGIC_MSBF, 0),
               FlattenFrom([f EXCEPT !.temp_nodes = << >>,
                                     !.temp_indices = << >>], 0))

(***************************************************************************)
(* LMSFlows._unpack_.  The graph being filled is a record: err, the stream *)
(* s, _temp_nodes_ (the nodes in table order; a successor is the table     *)
(* position plus one, or NoNode), _temp_labels_ and _temp_indices_, a flag *)
(* telling whether _temp_nodes_ and _temp_labels_ were ever assigned,      *)
(* _flowcharts_, the byte order and dispatched, the number of section      *)
(* unpackers entered.                                                      *)
(***************************************************************************)
NewFlows(adapter) ==
    [err |-> "", s |-> NewStream(<< >>, TRUE), nodes_set |-> FALSE,
     temp_nodes |-> << >>, labels_set |-> FALSE, temp_labels |-> << >>,
     temp_indices |-> << >>, flowcharts |-> << >>, big |-> TRUE,
     dispatched |-> 0]

\* LMSFlowNode.read
ReadNode(s, node) ==
    With(read_u16(s), LAMBDA a0 :
    With(read_u16(a0.s), LAMBDA a1 :
    With(read_u16(a1.s), LAMBDA a2 :
    With(read_u16(a2.s), LAMBDA a3 :
    With(read_u16(a3.s), LAMBDA a4 :
        IF a0.err # "" \/ a1.err # "" \/ a2.err # "" \/ a3.err # ""
           \/ a4.err # ""
        THEN [err |-> "EOFException", s |-> s, node |-> node]
        ELSE [err |-> "", s |-> a4.s,
              node |-> [node EXCEPT
                           !.arg = <<a0.v, a1.v, a2.v, a3.v, a4.v>>]])))))

\* "Read all nodes"
RECURSIVE ReadNodes(_, _)
ReadNodes(g, num_nodes) ==
    IF num_nodes <= 0 THEN g
    ELSE With(read_u16(g.s), LAMBDA node_type :
             IF node_type.err # "" THEN Raise(g, node_type.err)
             ELSE IF node_type.v \notin {MessageType, BranchType, EventType,
                                         EntryType}
             THEN Raise(g, "LMSException: Unknown flow node type")
             ELSE With(ReadNode(node_type.s, NewNodeOfType(node_type.v)),
                       LAMBDA node :
                 IF node.err # "" THEN Raise(g, node.err)
                 ELSE ReadNodes([g EXCEPT !.s = node.s,
                                          !.temp_nodes = Append(@, node.node)],
                                num_nodes - 1)))

\* "Read all branch indices"
RECURSIVE ReadIndices(_, _, _)
ReadIndices(g, num_indices, indices) ==
    IF num_indices <= 0 THEN [g EXCEPT !.temp_indices = indices]
    ELSE With(read_u16(g.s), LAMBDA index :
             IF index.err # "" THEN Raise(g, index.err)
             ELSE ReadIndices([g EXCEPT !.s = index.s], num_indices - 1,
                              Append(indices, index.v)))

_unpack_flw2_(g, offset, size) ==
    With(read_u16(Seek(g.s, offset)), LAMBDA num_nodes :
        IF num_nodes.err # "" THEN Raise(g, num_nodes.err)
        ELSE With(read_u16(num_nodes.s), LAMBDA num_indices :
            IF num_indices.err # "" THEN Raise(g, num_indices.err)
            ELSE With(ReadNodes([g EXCEPT !.s = Skip(num_indices.s, 4),
                                          !.nodes_set = TRUE,
                                          !.temp_nodes = << >>],
                                num_nodes.v), LAMBDA g2 :
                IF g2.err # "" THEN g2
                ELSE ReadIndices(g2, num_indices.v, << >>))))

_unpack_fen1_(g, offset, size) ==
    AssignLabels(g, unpack_hash_table(Seek(g.s, offset)))

_unpack_ref1_(g, offset, size) == Raise(g, "NotImplementedError")

\* "Parse all sections": the loop of LMSFlows._unpack_ over the sections
\* that are left.
\* The unpacker that the magic of a section selects, if any.
UnpackMsbfSection(g1, magic, section_offset, size) ==
    IF magic = MAGIC_FLW2
    THEN _unpack_flw2_(Entered(g1), section_offset, size)
    ELSE IF magic = MAGIC_FEN1
    THEN _unpack_fen1_(Entered(g1), section_offset, size)
    ELSE IF magic = MAGIC_REF1
    THEN _unpack_ref1_(Entered(g1), section_offset, size)
    ELSE g1

RECURSIVE UnpackMsbfSections(_, _)
UnpackMsbfSections(g, left) ==
    IF left = 0 \/ g.err # "" THEN g
    ELSE With(ReadSectionHeader(g.s), LAMBDA h :
             IF h.err # "" THEN Raise(g, h.err)
             ELSE UnpackMsbfSections(
                      SeekNextSection(
                          UnpackMsbfSection([g EXCEPT !.s = h.s], h.magic,
                                            h.s.pos, h.size),
                          h.s.pos, h.size),
                      left - 1))

\* try_get_node accepting the index one past the table as well.
try_get_node_inclusive(g, next_node_idx) ==
    IF next_node_idx = NoIndex THEN [err |-> "", node |-> NoNode]
    ELSE IF next_node_idx <= Len(g.temp_nodes)
    THEN [err |-> "", node |-> next_node_idx + 1]
    ELSE [err |-> "LMSException: No node at index", node |-> NoNode]

\* try_get_node of LMSFlows._unpack_
try_get_node(g, next_node_idx) ==
    IF next_node_idx = NoIndex THEN [err |-> "", node |-> NoNode]
    ELSE IF next_node_idx < Len(g.temp_nodes)
    THEN [err |-> "", node |-> next_node_idx + 1]
    ELSE [err |-> "LMSException: No node at index", node |-> NoNode]

\* _temp_indices_[i]
IndexAt(g, i) ==
    IF i < Len(g.temp_indices) THEN [err |-> "", v |-> g.temp_indices[i + 1]]
    ELSE [err |-> "IndexError", v |-> 0]

\* "Join nodes and labels" where an Entry node is appended to _flowcharts_
\* twice.
RECURSIVE JoinNodesRegisteringTwice(_, _)
JoinNodesRegisteringTwice(g, i) ==
    IF i >= Len(g.temp_nodes) THEN g
    ELSE With(g.temp_nodes[i + 1], LAMBDA node :
             IF node.type = EntryType
             THEN IF i \notin DOMAIN g.temp_labels
                  THEN Raise(g, "LMSException: No label for entry node")
                  ELSE With(try_get_node(g, node.arg[2]), LAMBDA next :
                       With([g EXCEPT
                                !.temp_nodes[i + 1].label = g.temp_labels[i],
                                !.flowcharts = @ \o <<i + 1, i + 1>>], LAMBDA g1 :
                           IF next.err # "" THEN Raise(g1, next.err)
                           ELSE JoinNodesRegisteringTwice(
                                    [g1 EXCEPT !.temp_nodes[i + 1].next_node =
                                                   next.node], i + 1)))
             ELSE IF node.type = BranchType
             THEN With(IndexAt(g, node.arg[5]), LAMBDA i1 :
                  With(try_get_node(g, i1.v), LAMBDA next :
                  With(IndexAt(g, node.arg[5] + 1), LAMBDA i2 :
                  With(try_get_node(g, i2.v), LAMBDA else :
                      IF i1.err # "" THEN Raise(g, i1.err)
                      ELSE IF next.err # "" THEN Raise(g, next.err)
                      ELSE IF i2.err # "" THEN Raise(g, i2.err)
                      ELSE IF else.err # "" THEN Raise(g, else.err)
                      ELSE JoinNodesRegisteringTwice(
                               [g EXCEPT
                                   !.temp_nodes[i + 1].next_node = next.node,
                                   !.temp_nodes[i + 1].next_node_else =
                                       else.node], i + 1)))))
             ELSE With(try_get_node(g, IF node.type = MessageType
                                       THEN node.arg[4] ELSE node.arg[3]),
                       LAMBDA next :
                      IF next.err # "" THEN Raise(g, next.err)
                      ELSE JoinNodesRegisteringTwice(
                               [g EXCEPT !.temp_nodes[i + 1].next_node =
                                             next.node], i + 1)))

\* "Join nodes and labels", from table position i (from 0) on.
RECURSIVE JoinNodes(_, _)
JoinNodes(g, i) ==
    IF i >= Len(g.temp_nodes) THEN g
    ELSE With(g.temp_nodes[i + 1], LAMBDA node :
             IF node.type = EntryType
             THEN IF i \notin DOMAIN g.temp_labels
                  THEN Raise(g, "LMSException: No label for entry node")
                  ELSE With(try_get_node(g, node.arg[2]), LAMBDA next :
                       With([g EXCEPT
                                !.temp_nodes[i + 1].label = g.temp_labels[i],
                                !.flowcharts = Append(@, i + 1)], LAMBDA g1 :
                           IF next.err # "" THEN Raise(g1, next.err)
                           ELSE JoinNodes(
                                    [g1 EXCEPT !.temp_nodes[i + 1].next_node =
                                                   next.node], i + 1)))
             ELSE IF node.type = BranchType
             THEN With(IndexAt(g, node.arg[5]), LAMBDA i1 :
                  With(try_get_node(g, i1.v), LAMBDA next :
                  With(IndexAt(g, node.arg[5] + 1), LAMBDA i2 :
                  With(try_get_node(g, i2.v), LAMBDA else :
                      IF i1.err # "" THEN Raise(g, i1.err)
                      ELSE IF next.err # "" THEN Raise(g, next.err)
                      ELSE IF i2.err # "" THEN Raise(g, i2.err)
                      ELSE IF else.err # "" THEN Raise(g, else.err)
                      ELSE JoinNodes(
                               [g EXCEPT
                                   !.temp_nodes[i + 1].next_node = next.node,
                                   !.temp_nodes[i + 1].next_node_else =
                                       else.node], i + 1)))))
             ELSE With(try_get_node(g, IF node.type = MessageType
                                       THEN node.arg[4] ELSE node.arg[3]),
                       LAMBDA next :
                      IF next.err # "" THEN Raise(g, next.err)
                      ELSE JoinNodes(
                               [g EXCEPT !.temp_nodes[i + 1].next_node =
                                             next.node], i + 1)))

\* LMSFlows._unpack_ on a new LMSFlows: msbf_from_buffer.
\* "Verify that all required sections are present" and the join.
VerifyAndJoinNodes(g2) ==
    IF g2.err # "" THEN g2
    ELSE IF ~g2.nodes_set \/ ~g2.labels_set THEN Raise(g2, "AttributeError")
    ELSE JoinNodes(g2, 0)

msbf_from_buffer(adapter, buffer) ==
    With(ReadHeader(buffer, MAGIC_MSBF), LAMBDA h :
        IF h.err # "" THEN [NewFlows(adapter) EXCEPT !.err = h.err, !.s = h.s]
        ELSE VerifyAndJoinNodes(
                 UnpackMsbfSections(
                     [NewFlows(adapter) EXCEPT !.s = Seek(h.s, 32),
                                               !.big = h.s.big],
                     h.num_sections)))

(***************************************************************************)
(* The life of a flow graph: it is constructed, edited (new_flowchart, new *)
(* nodes, assignments of successors, the byte order setters), packed by    *)
(* makebin, whose flattening loop is followed iteration by iteration, and  *)
(* the bytes are unpacked again by msbf_from_buffer.                       *)
(*                                                                         *)
(* flows.nodes holds every node that was created, flows.flowcharts the     *)
(* references of _flowcharts_; root_i is the position of the "for          *)
(* flowchart" loop of _pack_flw2_ and remaining_nodes its work queue.      *)
(***************************************************************************)
\* The label of the flowchart created as number k (from 1): "A", "B", ...
FlowLabel(k) == <<64 + k>>

\* LMSFlows.new_flowchart
new_flowchart(f, label) ==
    IF \E i \in 1..Len(f.flowcharts) : f.nodes[f.flowcharts[i]].label = label
    THEN [err |-> "LMSException: label exists", f |-> f]
    ELSE [err |-> "",
          f |-> [f EXCEPT !.nodes = Append(@, [LMSEntryNode EXCEPT
                                                   !.label = label]),
                          !.flowcharts = Append(@, Len(f.nodes) + 1)]]

\* The value the caller gives to slot k of the node created as number id.
SlotValue(id, k) == id * 8 + k

\* A node the caller constructs, with the properties of its variant
\* assigned: msbt_entry_idx of a Message, condition_type and
\* condition_param of a Branch, event_type and event_param of an Event.
CallerNode(type, id) ==
    IF type = MessageType
    THEN [LMSMessageNode EXCEPT !.arg[3] = SlotValue(id, 2)]
    ELSE IF type = BranchType
    THEN [LMSBranchNode EXCEPT !.arg[3] = SlotValue(id, 2),
                               !.arg[4] = SlotValue(id, 3)]
    ELSE [LMSEventNode EXCEPT !.arg[2] = SlotValue(id, 1),
                              !.arg[5] = SlotValue(id, 4)]

InitMsbf ==
    /\ pc = "msbf_edit"
    /\ input = Null
    /\ output = Null
    /\ stream = Null
    /\ document = Null
    /\ flows \in {[adapter |-> NewAdapter(fixed, FALSE), flowcharts |-> << >>,
                   nodes |-> << >>, temp_nodes |-> << >>,
                   temp_indices |-> << >>, remaining_nodes |-> << >>,
                   root_i |-> 0] : fixed \in BOOLEAN}
    /\ binary = Null

\* new_flowchart with the next unused label, or with the label of the
\* first flowchart again.
NewFlowchart ==
    /\ pc = "msbf_edit"
    /\ Len(flows.nodes) < MaxNodes
    /\ \E label \in {FlowLabel(1), FlowLabel(Len(flows.flowcharts) + 1)} :
          \E r \in {new_flowchart(flows, label)} :
              /\ flows' = r.f
              /\ output' = [err |-> r.err]
    /\ UNCHANGED <<pc, input, stream, document, binary>>

\* The caller constructs a Message, Branch or Event node; the first node of
\* a graph is a flowchart.
NewNode ==
    /\ pc = "msbf_edit"
    /\ Len(flows.flowcharts) > 0
    /\ Len(flows.nodes) < MaxNodes
    /\ \E type \in {MessageType, BranchType, EventType} :
          flows' = [flows EXCEPT
                       !.nodes = Append(@, CallerNode(type, Len(@) + 1))]
    /\ UNCHANGED <<pc, input, output, stream, document, binary>>

\* "node.next_node = ..."
AssignNextNode ==
    /\ pc = "msbf_edit"
    /\ \E node \in 1..Len(flows.nodes), next \in 0..Len(flows.nodes) :
          flows' = [flows EXCEPT !.nodes[node].next_node = next]
    /\ UNCHANGED <<pc, input, output, stream, document, binary>>

\* "node.next_node_else = ..." on a Branch.
AssignNextNodeElse ==
    /\ pc = "msbf_edit"
    /\ \E node \in 1..Len(flows.nodes), next \in 0..Len(flows.nodes) :
          /\ flows.nodes[node].type = BranchType
          /\ flows' = [flows EXCEPT !.nodes[node].next_node_else = next]
    /\ UNCHANGED <<pc, input, output, stream, document, binary>>

\* LMSFlows.set_little_endian, called on a graph without nodes.
FlowsSetLittleEndian ==
    /\ pc = "msbf_edit"
    /\ Len(flows.nodes) = 0
    /\ flows' = [flows EXCEPT !.adapter = set_little_endian(@)]
    /\ UNCHANGED <<pc, input, output, stream, document, binary>>

\* LMSFlows.makebin up to the flattening loop of _pack_flw2_: the header
\* is written to the new stream, the two temporary lists are emptied.
MsbfMakeBin ==
    /\ pc = "msbf_edit"
    /\ stream' = WriteHeader(create_stream(flows.adapter, 32), MAGIC_MSBF, 0)
    /\ flows' = [flows EXCEPT !.temp_nodes = << >>, !.temp_indices = << >>,
                              !.remaining_nodes = << >>, !.root_i = 0]
    /\ pc' = "flw2_for"
    /\ UNCHANGED <<input, output, document, binary>>

\* "for flowchart in self._flowcharts_: remaining_nodes = [flowchart]"
FlattenFlowchart ==
    /\ pc = "flw2_for"
    /\ flows.root_i < Len(flows.flowcharts)
    /\ flows' = [flows EXCEPT
                    !.remaining_nodes = <<flows.flowcharts[flows.root_i + 1]>>,
                    !.root_i = @ + 1]
    /\ pc' = "flw2_while"
    /\ UNCHANGED <<input, output, stream, document, binary>>

\* One iteration of "while len(remaining_nodes)".
FlattenNode ==
    /\ pc = "flw2_while"
    /\ Len(flows.remaining_nodes) > 0
    /\ flows' = FlattenStep(flows)
    /\ pc' = IF Len(flows'.remaining_nodes) > 0 THEN "flw2_while"
             ELSE "flw2_for"
    /\ UNCHANGED <<input, output, stream, document, binary>>

\* The rest of makebin once every flowchart is flattened.
MsbfMakeBinFinish ==
    /\ pc = "flw2_for"
    /\ flows.root_i = Len(flows.flowcharts)
    /\ \E r \in {MsbfFinish(stream, flows)} :
           /\ flows' = r.f
           /\ binary' = r.buf
           /\ output' = [err |-> r.err]
           /\ pc' = IF r.err = "" THEN "msbf_packed" ELSE "msbf_failed"
    /\ UNCHANGED <<input, stream, document>>

\* msbf_from_buffer with a new adapter of the same class.
MsbfFromBuffer ==
    /\ pc = "msbf_packed"
    /\ \E g \in {msbf_from_buffer(NewAdapter(flows.adapter.fixed, FALSE),
                                   binary)} :
           output' = [err |-> g.err, nodes |-> g.temp_nodes,
                      flowcharts |-> g.flowcharts, big |-> g.big,
                      dispatched |-> g.dispatched]
    /\ pc' = "msbf_done"
    /\ UNCHANGED <<input, stream, document, flows, binary>>

NextMsbf ==
    \/ NewFlowchart
    \/ NewNode
    \/ AssignNextNode
    \/ AssignNextNodeElse
    \/ FlowsSetLittleEndian
    \/ MsbfMakeBin
    \/ FlattenFlowchart
    \/ FlattenNode
    \/ MsbfMakeBinFinish
    \/ MsbfFromBuffer

SpecMsbf == InitMsbf /\ [][NextMsbf]_vars

\* The successors of a node of the graph: next_node, and next_node_else of
\* a Branch.
Successors(f, node) ==
    ({f.nodes[node].next_node} \cup
     IF f.nodes[node].type = BranchType THEN {f.nodes[node].next_node_else}
     ELSE {}) \ {NoNode}

\* The nodes that are reached from the flowcharts in at most k steps.
RECURSIVE ReachableWithin(_, _)
ReachableWithin(f, k) ==
    IF k = 0 THEN {f.flowcharts[i] : i \in 1..Len(f.flowcharts)}
    ELSE LET R == ReachableWithin(f, k - 1)
         IN  R \cup UNION {Successors(f, node) : node \in R}

Reachable(f) == ReachableWithin(f, Len(f.nodes))

\* The flattening is over: the table is about to be written or was.
Flattened ==
    \/ pc = "flw2_for" /\ flows.root_i = Len(flows.flowcharts)
    \/ pc \in {"msbf_packed", "msbf_done"}

\* C3: after the flattening of _pack_flw2_ the node table _temp_nodes_
\* holds every node that is reachable from a flowchart, each at exactly one
\* position, and no other node.
C3_TableHoldsReachableOnce ==
    Flattened =>
        /\ {flows.temp_nodes[i] : i \in 1..Len(flows.temp_nodes)}
               = Reachable(flows)
        /\ \A i, j \in 1..Len(flows.temp_nodes) :
              flows.temp_nodes[i] = flows.temp_nodes[j] => i = j

\* A node with several predecessors was flattened: two nodes of the table
\* share a successor, or a Branch of the table has the same node as next
\* and as else, or a flowchart is the successor of a node.
C3_Witness ==
    /\ Flattened
    /\ \E a, b \in Reachable(flows) :
          /\ a # b
          /\ Successors(flows, a) \cap Successors(flows, b) # {}
    /\ \E a \in Reachable(flows) :
          /\ flows.nodes[a].type = BranchType
          /\ flows.nodes[a].next_node # NoNode
          /\ flows.nodes[a].next_node = flows.nodes[a].next_node_else

\* The slots of a variant that hold no index: all but arg1 of an Entry,
\* arg3 of a Message, arg4 of a Branch, arg2 of an Event.
NonIndexSlots(type) ==
    (1..5) \ {IF type = EntryType THEN 2
              ELSE IF type = MessageType THEN 4
              ELSE IF type = BranchType THEN 5
              ELSE 3}

\* m maps the reachable nodes of the graph f one to one onto the nodes that
\* were unpacked, keeping the variant, the slots that hold no index, the
\* label of a flowchart, the flowcharts, and next and else (NoNode too).
MapOf(m, node) == IF node = NoNode THEN NoNode ELSE m[node]

Isomorphism(m, f, nodes, flowcharts) ==
    /\ {m[x] : x \in DOMAIN m} = 1..Len(nodes)
    /\ \A x, y \in DOMAIN m : m[x] = m[y] => x = y
    /\ \A x \in DOMAIN m :
          /\ nodes[m[x]].type = f.nodes[x].type
          /\ \A k \in NonIndexSlots(f.nodes[x].type) :
                nodes[m[x]].arg[k] = f.nodes[x].arg[k]
          /\ nodes[m[x]].label = f.nodes[x].label
          /\ nodes[m[x]].next_node = MapOf(m, f.nodes[x].next_node)
          /\ f.nodes[x].type = BranchType =>
                nodes[m[x]].next_node_else
                    = MapOf(m, f.nodes[x].next_node_else)
    /\ {m[f.flowcharts[i]] : i \in 1..Len(f.flowcharts)}
           = {flowcharts[i] : i \in 1..Len(flowcharts)}
    /\ Len(flowcharts) = Len(f.flowcharts)

\* C2: whenever makebin has packed a flow graph and msbf_from_buffer has
\* unpacked the bytes, unpacking succeeded and some one-to-one map of the
\* reachable nodes of the graph onto the unpacked nodes keeps variant,
\* non-index slots, flowchart labels, and the next and else relations.
C2_FlowGraphRoundTrip ==
    pc = "msbf_done" =>
        /\ output.err = ""
        /\ \E m \in [Reachable(flows) -> 1..Len(output.nodes)] :
              Isomorphism(m, flows, output.nodes, output.flowcharts)

\* A graph in which a node has two predecessors, a Branch occurs and a
\* node is its own successor after some steps was packed and unpacked.
RECURSIVE SuccessorsWithin(_, _, _)
SuccessorsWithin(f, node, k) ==
    IF k = 1 THEN Successors(f, node)
    ELSE LET R == SuccessorsWithin(f, node, k - 1)
         IN  R \cup UNION {Successors(f, x) : x \in R}

C2_Witness ==
    /\ pc = "msbf_done"
    /\ output.err = ""
    /\ Len(output.nodes) = MaxNodes
    /\ \E a, b \in Reachable(flows) :
          /\ a # b
          /\ Successors(flows, a) \cap Successors(flows, b) # {}
    /\ \E a \in Reachable(flows) : flows.nodes[a].type = BranchType
    /\ \E a \in Reachable(flows) :
          a \in SuccessorsWithin(flows, a, Len(flows.nodes))

(***************************************************************************)
(* Files with damaged fields.  A file is what makebin returned for a       *)
(* document or for a flow graph; some of its fields are then overwritten   *)
(* (the first byte of the magic, the BOM, the version, the total size, the *)
(* size or the magic of a section, a count of the label table, the index   *)
(* of a successor, the type tag of a node), and the file is unpacked by    *)
(* the decoder of its format.  input keeps the format, the adapter class,  *)
(* the offsets of the section headers of the file as it was packed, and    *)
(* the fields that were overwritten.                                       *)
(***************************************************************************)
LittleAdapter(fixed, styles) == set_little_endian(NewAdapter(fixed, styles))

Utf8Adapter(fixed, styles) ==
    [NewAdapter(fixed, styles) EXCEPT !.charset = "utf-8"]

Message(label, text, style) ==
    [label |-> label, text |-> text, style |-> style]

\* The documents whose files are damaged.
PackedDocuments ==
    {[adapter |-> NewAdapter(FALSE, FALSE),
      messages |-> <<Message(<<65>>, <<Letter, Letter>>, 0 - 1)>>],
     [adapter |-> LittleAdapter(FALSE, TRUE),
      messages |-> <<Message(<<65>>, <<Letter>>, 7),
                     Message(<<66>>, << >>, DefaultStyle)>>],
     [adapter |-> Utf8Adapter(FALSE, TRUE), messages |-> << >>]}

EmptyFlows(adapter) ==
    [adapter |-> adapter, flowcharts |-> << >>, nodes |-> << >>,
     temp_nodes |-> << >>, temp_indices |-> << >>, remaining_nodes |-> << >>,
     root_i |-> 0]

\* The flow graphs whose files are damaged: a flowchart followed by a
\* Message and an Event, a flowchart followed by a Branch to itself and
\* to nothing, and two flowcharts followed by the same Message.
PackedFlows ==
    {[EmptyFlows(NewAdapter(FALSE, FALSE)) EXCEPT
         !.flowcharts = <<1>>,
         !.nodes = <<[LMSEntryNode EXCEPT !.label = FlowLabel(1),
                                          !.next_node = 2],
                     [CallerNode(MessageType, 2) EXCEPT !.next_node = 3],
                     CallerNode(EventType, 3)>>],
     [EmptyFlows(LittleAdapter(FALSE, FALSE)) EXCEPT
         !.flowcharts = <<1>>,
         !.nodes = <<[LMSEntryNode EXCEPT !.label = FlowLabel(1),
                                          !.next_node = 2],
                     [CallerNode(BranchType, 2) EXCEPT !.next_node = 2]>>],
     [EmptyFlows(NewAdapter(FALSE, FALSE)) EXCEPT
         !.flowcharts = <<1, 2>>,
         !.nodes = <<[LMSEntryNode EXCEPT !.label = FlowLabel(1),
                                          !.next_node = 3],
                     [LMSEntryNode EXCEPT !.label = FlowLabel(2),
                                          !.next_node = 3],
                     CallerNode(MessageType, 3)>>]}

\* The u16 at offset off (from 0) of a file.
FieldU16(buf, off, big) == UnpackU16(SubSeq(buf, off + 1, off + 2), big)

\* The u32 at offset off (from 0) of a file.
FieldU32(buf, off, big) == UnpackU32(SubSeq(buf, off + 1, off + 4), big)

\* The BOM field as the decoder first reads it: big endian.
BomField(buf) == UnpackU16(SubSeq(buf, 9, 10), TRUE)

\* The byte order a file with a valid BOM is read in.
FileIsBig(buf) == BomField(buf) = 65279

\* The offsets of the section headers of a well-formed file, from offset
\* off on.
RECURSIVE SectionOffsets(_, _)
SectionOffsets(buf, off) ==
    IF off + 16 > Len(buf) THEN << >>
    ELSE <<off>> \o
         SectionOffsets(buf,
             ((off + 16 + FieldU32(buf, off + 4, FileIsBig(buf)) + 15)
                  \div 16) * 16)

\* A file with the bytes raw written at offset off.
Overwrite(buf, off, raw) == Write(Seek(NewStream(buf, TRUE), off), raw).buf

PackedFile(format, adapter, buf) ==
    [format |-> format, adapter |-> adapter,
     sections |-> SectionOffsets(buf, 32), buf |-> buf]

PackedFiles ==
    {PackedFile("msbt", doc.adapter,
                msbt_makebin(doc.adapter, doc.messages).buf) :
         doc \in PackedDocuments}
    \cup {PackedFile("msbf", f.adapter, msbf_makebin(f).buf) :
              f \in PackedFlows}

InitHeader ==
    /\ pc = "file_packed"
    /\ \E file \in PackedFiles :
          /\ input = [format |-> file.format, adapter |-> file.adapter,
                      sections |-> file.sections, patched |-> {}]
          /\ binary = file.buf
    /\ output = Null
    /\ stream = Null
    /\ document = Null
    /\ flows = Null

CanPatch(field) ==
    /\ pc = "file_packed"
    /\ Cardinality(input.patched) < MaxPatches
    /\ field \notin input.patched

Patch(field, off, raw) ==
    /\ binary' = Overwrite(binary, off, raw)
    /\ input' = [input EXCEPT !.patched = @ \cup {field}]
    /\ UNCHANGED <<pc, output, stream, document, flows>>

PatchMagic ==
    /\ CanPatch("magic")
    /\ Patch("magic", 0, <<0>>)

PatchBom ==
    /\ CanPatch("bom")
    /\ \E raw \in {<<0, 0>>, <<18, 52>>, <<255, 254>>, <<254, 255>>} :
          Patch("bom", 8, raw)

PatchVersion ==
    /\ CanPatch("version")
    /\ \E version \in {0, 2, 4, 255} : Patch("version", 13, <<version>>)

\* The total size is overwritten in the byte order of the file as packed.
PatchFileSize ==
    /\ CanPatch("file_size")
    /\ \E file_size \in {0, Len(binary) - 16, Len(binary) + 1} :
          Patch("file_size", 18, PackU32(file_size, input.adapter.big))

\* The size of a section is overwritten with one that ends the payload
\* beyond the end of the file.
PatchSectionSize ==
    /\ CanPatch("section_size")
    /\ \E k \in 1..Len(input.sections),
          section_size \in {Len(binary), 16777216} :
          Patch("section_size", input.sections[k] + 4,
                PackU32(section_size, input.adapter.big))

\* A magic no section unpacker is selected by: b"XXXX".
UnknownMagic == <<88, 88, 88, 88>>

\* The magic of a section is overwritten with one that neither decoder
\* knows: the file holds that section no more.
PatchSectionMagic ==
    /\ CanPatch("section_magic")
    /\ \E k \in 1..Len(input.sections) :
          Patch("section_magic", input.sections[k], UnknownMagic)

\* The payload of the section that holds the label table: LBL1 is the
\* first section makebin writes in a message table, FEN1 the second one
\* in a flow graph.
LabelTableOffset ==
    input.sections[IF input.format = "msbt" THEN 1 ELSE 2] + 16

\* The bucket count the label table was packed with.
PackedBuckets == FieldU32(binary, LabelTableOffset, input.adapter.big)

\* A count of the label table is overwritten with 0: the number of buckets,
\* which leaves a table without any label, or the number of entries of one
\* bucket, which removes the labels of that bucket.
PatchLabelTable ==
    /\ CanPatch("label_table")
    /\ \E off \in {LabelTableOffset}
                  \cup {LabelTableOffset + 4 + 8 * k :
                            k \in 0..(PackedBuckets - 1)} :
          Patch("label_table", off, PackS32(0, input.adapter.big))

\* The layout of FLW2, the first section of a flow graph: the node count,
\* the nodes of 12 bytes each from offset 8 of the payload on (the type
\* and the five slots), then the branch index table.
FileNodes == FieldU16(binary, input.sections[1] + 16, input.adapter.big)

NodeOffset(i) == input.sections[1] + 24 + 12 * i

NodeType(i) == FieldU16(binary, NodeOffset(i), input.adapter.big)

NodeArg(i, k) == FieldU16(binary, NodeOffset(i) + 2 + 2 * k, input.adapter.big)

IndexTableOffset(j) == NodeOffset(FileNodes) + 2 * j

\* Where the file keeps the index of the successor of node i (from 0):
\* arg1 of an Entry, arg3 of a Message, arg2 of an Event, entry arg4 of the
\* branch index table for a Branch, whose second successor is at entry
\* arg4 + 1.
NextOffset(i) ==
    IF NodeType(i) = EntryType THEN NodeOffset(i) + 4
    ELSE IF NodeType(i) = MessageType THEN NodeOffset(i) + 8
    ELSE IF NodeType(i) = EventType THEN NodeOffset(i) + 6
    ELSE IndexTableOffset(NodeArg(i, 4))

ElseOffset(i) == IndexTableOffset(NodeArg(i, 4) + 1)

SuccessorOffsets ==
    {NextOffset(i) : i \in 0..(FileNodes - 1)}
    \cup {ElseOffset(i) : i \in {j \in 0..(FileNodes - 1) :
                                     NodeType(j) = BranchType}}

\* The index of a successor is overwritten: with "none", with the first or
\* the last position of the node table, with the position one past the
\* table, or with 0xFFFE.
PatchSuccessor ==
    /\ CanPatch("successor")
    /\ input.format = "msbf"
    /\ \E off \in SuccessorOffsets,
          index \in {NoIndex, 0, FileNodes - 1, FileNodes, NoIndex - 1} :
          Patch("successor", off, PackU16(index, input.adapter.big))

\* The type tag of a node is overwritten with the tag of an Entry, of a
\* Message or of an Event; the five slots of the node stay.
PatchNodeType ==
    /\ CanPatch("node_type")
    /\ input.format = "msbf"
    /\ \E i \in 0..(FileNodes - 1), type \in {EntryType, MessageType, EventType} :
          /\ type # NodeType(i)
          /\ Patch("node_type", NodeOffset(i), PackU16(type, input.adapter.big))

\* msbt_from_buffer or msbf_from_buffer, with a new adapter of the class
\* the file was packed with.
FileFromBuffer ==
    /\ pc = "file_packed"
    /\ \E adapter \in {NewAdapter(input.adapter.fixed, input.adapter.styles)} :
       \E r \in {IF input.format = "msbt"
                 THEN msbt_from_buffer(adapter, binary)
                 ELSE msbf_from_buffer(adapter, binary)} :
           output' = [err |-> r.err, dispatched |-> r.dispatched,
                      decoded |-> r]
    /\ pc' = "file_done"
    /\ UNCHANGED <<input, stream, document, flows, binary>>

NextHeader ==
    \/ PatchMagic
    \/ PatchBom
    \/ PatchVersion
    \/ PatchFileSize
    \/ PatchSectionSize
    \/ PatchSectionMagic
    \/ PatchLabelTable
    \/ PatchSuccessor
    \/ PatchNodeType
    \/ FileFromBuffer

SpecHeader == InitHeader /\ [][NextHeader]_vars

\* The fields of the file that was unpacked.
MagicIsRight ==
    SubSeq(binary, 1, 8) = IF input.format = "msbt" THEN MAGIC_MSBT
                           ELSE MAGIC_MSBF

BomIsValid == BomField(binary) \in {65279, 65534}

VersionField == binary[14]

FileSizeField == FieldU32(binary, 18, FileIsBig(binary))

\* Section k of the file declares a payload that ends beyond the file.
SectionExceedsFile(k) ==
    input.sections[k] + 16
        + FieldU32(binary, input.sections[k] + 4, FileIsBig(binary))
    > Len(binary)

\* C8: when a file of either format, with the magic of its format, has a
\* BOM field other than 0xFEFF and 0xFFFE, unpacking raises BOMException
\* without having entered any section unpacker; as *_from_buffer raises,
\* it returns nothing to its caller.
C8_BadBom ==
    (pc = "file_done" /\ MagicIsRight /\ ~BomIsValid)
    => /\ output.err = "BOMException"
       /\ output.dispatched = 0

\* A flow graph file whose BOM field is 0x0000 was unpacked.
C8_Witness ==
    /\ pc = "file_done"
    /\ input.format = "msbf"
    /\ MagicIsRight
    /\ BomField(binary) = 0
    /\ output.err = "BOMException"

\* The same for a message table file.
C8_WitnessMsbt ==
    /\ pc = "file_done"
    /\ input.format = "msbt"
    /\ MagicIsRight
    /\ BomField(binary) = 0
    /\ output.err = "BOMException"

\* C9: when the size field of a section of an otherwise well-formed file
\* makes the payload end beyond the end of the file, unpacking raises an
\* exception.
C9_OversizedSectionFails ==
    (/\ pc = "file_done"
     /\ input.patched = {"section_size"}
     /\ \E k \in 1..Len(input.sections) : SectionExceedsFile(k))
    => output.err # ""

\* The same for the sections that are followed by another section.
OversizedInnerSectionFails ==
    (/\ pc = "file_done"
     /\ input.patched = {"section_size"}
     /\ \E k \in 1..(Len(input.sections) - 1) : SectionExceedsFile(k))
    => output.err = "EOFException"

\* C10: when a file has the magic of its format and a valid BOM, a version
\* byte other than 3 makes unpacking raise the LMSException of an
\* unsupported version, and a version byte of 3 with a total size field
\* that differs from the length of the file makes it raise the
\* LMSException of a wrong file size; no section unpacker is entered.
C10_VersionAndSize ==
    (pc = "file_done" /\ MagicIsRight /\ BomIsValid)
    => /\ VersionField # 3 =>
             /\ output.err = "LMSException: Unsupported version"
             /\ output.dispatched = 0
       /\ (VersionField = 3 /\ FileSizeField # Len(binary)) =>
             /\ output.err = "LMSException: file size"
             /\ output.dispatched = 0

\* A file with version 3 whose total size field is one more than its
\* length was unpacked.
C10_Witness ==
    /\ pc = "file_done"
    /\ MagicIsRight
    /\ BomIsValid
    /\ VersionField = 3
    /\ FileSizeField = Len(binary) + 1
    /\ output.err = "LMSException: file size"

\* A file with version 4 and the right total size was unpacked.
C10_WitnessVersion ==
    /\ pc = "file_done"
    /\ MagicIsRight
    /\ BomIsValid
    /\ VersionField = 4
    /\ FileSizeField = Len(binary)
    /\ output.err = "LMSException: Unsupported version"

\* The label table of the file that was unpacked, as unpack_hash_table
\* reads it.
FileLabels ==
    unpack_hash_table(
        Seek(NewStream(binary, FileIsBig(binary)), LabelTableOffset)).dict

\* The entry count of TXT2, the second section of a message table.
FileTexts == FieldU32(binary, input.sections[2] + 16, FileIsBig(binary))

\* A message table whose only damage is in the label table was unpacked.
LabelsDamaged ==
    /\ pc = "file_done"
    /\ input.format = "msbt"
    /\ input.patched = {"label_table"}

\* C12: when the label table of a message table has no entry for a
\* position below the entry count of TXT2, also when the table is empty,
\* unpacking raises the LMSException of a missing label; and no message
\* that unpacking returns has the label of a new message, the empty one.
C12_MissingLabel ==
    LabelsDamaged =>
        /\ (\E i \in 0..(FileTexts - 1) : i \notin DOMAIN FileLabels)
               => output.err = "LMSException: No label for message"
        /\ output.err = "" =>
               \A k \in 1..Len(output.decoded.messages) :
                   output.decoded.messages[k].label # << >>

\* What does hold: a table with some label and without the one of a
\* position makes unpacking raise that exception.
MissingLabelInNonEmptyTable ==
    (/\ LabelsDamaged
     /\ DOMAIN FileLabels # {}
     /\ \E i \in 0..(FileTexts - 1) : i \notin DOMAIN FileLabels)
    => output.err = "LMSException: No label for message"

\* An empty table: unpacking returned the message of TXT2 with the label a
\* new message has.
UnlabelledMessageReturned ==
    /\ LabelsDamaged
    /\ FileTexts = 1
    /\ DOMAIN FileLabels = {}
    /\ output.err = ""
    /\ Len(output.decoded.messages) = 1
    /\ output.decoded.messages[1].label = << >>

\* A table of two labels lost one and unpacking raised the exception.
MissingLabelWitness ==
    /\ LabelsDamaged
    /\ FileTexts = 2
    /\ DOMAIN FileLabels = {0}
    /\ output.err = "LMSException: No label for message"

\* A flow graph whose only damage is in the indices of successors was
\* unpacked.
SuccessorsDamaged ==
    /\ pc = "file_done"
    /\ input.format = "msbf"
    /\ input.patched = {"successor"}

\* The node an index of the file stands for: None for 0xFFFF, else the
\* node at that position of the table.
NodeAt(index) == IF index = NoIndex THEN NoNode ELSE index + 1

Resolvable(off) ==
    \/ FieldU16(binary, off, input.adapter.big) = NoIndex
    \/ FieldU16(binary, off, input.adapter.big) < FileNodes

\* C13: when every index of a successor in the file (arg1 of an Entry,
\* arg3 of a Message, arg2 of an Event, the two entries of the branch index
\* table of a Branch) is 0xFFFF or below the node count, unpacking gives
\* every node no successor for 0xFFFF and the node at that position of the
\* table otherwise; when some index is neither, unpacking raises the
\* LMSException of a node index that cannot be resolved.
C13_SuccessorIndex ==
    SuccessorsDamaged =>
        IF \A off \in SuccessorOffsets : Resolvable(off)
        THEN /\ output.err = ""
             /\ Len(output.decoded.temp_nodes) = FileNodes
             /\ \A i \in 0..(FileNodes - 1) :
                   /\ output.decoded.temp_nodes[i + 1].next_node
                        = NodeAt(FieldU16(binary, NextOffset(i),
                                          input.adapter.big))
                   /\ NodeType(i) = BranchType =>
                        output.decoded.temp_nodes[i + 1].next_node_else
                          = NodeAt(FieldU16(binary, ElseOffset(i),
                                            input.adapter.big))
        ELSE output.err = "LMSException: No node at index"

\* The second successor of a Branch was overwritten with the node count
\* and unpacking raised the exception.
C13_Witness ==
    /\ SuccessorsDamaged
    /\ \E i \in 0..(FileNodes - 1) :
          /\ NodeType(i) = BranchType
          /\ FieldU16(binary, ElseOffset(i), input.adapter.big) = FileNodes
          /\ Resolvable(NextOffset(i))
    /\ output.err = "LMSException: No node at index"

\* The successor of an Event was overwritten with the last position of the
\* table and unpacking returned the Event with itself as successor.
C13_WitnessResolved ==
    /\ SuccessorsDamaged
    /\ output.err = ""
    /\ \E i \in 0..(FileNodes - 1) :
          /\ NodeType(i) = EventType
          /\ NodeArg(i, 2) = FileNodes - 1
          /\ output.decoded.temp_nodes[i + 1].next_node = FileNodes

\* Section k of the file as packed is one the decoder requires: LBL1 of a
\* message table and TSY1 when the adapter supports styles (no adapter of
\* the model supports attributes), FLW2 and FEN1 of a flow graph.
Required(k) ==
    IF input.format = "msbt" THEN k = 1 \/ (k = 3 /\ input.adapter.styles)
    ELSE k \in {1, 2}

\* A file that lost a required section, and nothing else, was unpacked.
RequiredSectionAbsent ==
    /\ pc = "file_done"
    /\ input.patched = {"section_magic"}
    /\ \E k \in 1..Len(input.sections) :
          /\ Required(k)
          /\ SubSeq(binary, input.sections[k] + 1, input.sections[k] + 4)
               = UnknownMagic

\* C14: when a required section is absent from the file, unpacking raises
\* the LMSException of the library that names the missing section, and no
\* other exception.
C14_MissingRequiredSection ==
    RequiredSectionAbsent =>
        output.err \in {"LMSException: No labels section found",
                        "LMSException: No styles section found",
                        "LMSException: No nodes section (FLW2) found",
                        "LMSException: No labels section (FEN1) found"}

\* What unpacking does raise: the AttributeError of reading an attribute
\* that was never assigned.
MissingSectionIsAttributeError ==
    RequiredSectionAbsent => output.err = "AttributeError"

\* A message table without LBL1 was unpacked.
MissingSectionWitness ==
    /\ RequiredSectionAbsent
    /\ input.format = "msbt"
    /\ SubSeq(binary, input.sections[1] + 1, input.sections[1] + 4)
         = UnknownMagic
    /\ output.err = "AttributeError"

(***************************************************************************)
(* Label-checked insertion: new_message on a document and new_flowchart on *)
(* a flow graph, called in any order with any label of DocLabels.  input   *)
(* keeps the operation and the label of the last call.                     *)
(***************************************************************************)
InitLabels ==
    /\ pc = "labels"
    /\ input = [op |-> "none", label |-> << >>]
    /\ output = [err |-> ""]
    /\ stream = Null
    /\ document \in {[adapter |-> NewAdapter(FALSE, styles),
                      messages |-> << >>] : styles \in BOOLEAN}
    /\ flows = EmptyFlows(NewAdapter(FALSE, FALSE))
    /\ binary = Null

CallNewMessage ==
    /\ pc = "labels"
    /\ Len(document.messages) < MaxLabelled
    /\ \E label \in DocLabels :
          \E r \in {new_message(document, label)} :
              /\ document' = r.doc
              /\ output' = [err |-> r.err]
              /\ input' = [op |-> "new_message", label |-> label]
    /\ UNCHANGED <<pc, stream, flows, binary>>

CallNewFlowchart ==
    /\ pc = "labels"
    /\ Len(flows.flowcharts) < MaxLabelled
    /\ \E label \in DocLabels :
          \E r \in {new_flowchart(flows, label)} :
              /\ flows' = r.f
              /\ output' = [err |-> r.err]
              /\ input' = [op |-> "new_flowchart", label |-> label]
    /\ UNCHANGED <<pc, stream, document, binary>>

NextLabels == CallNewMessage \/ CallNewFlowchart

SpecLabels == InitLabels /\ [][NextLabels]_vars

\* The labels of the entry list, in its order.
MessageLabels(doc) == [i \in 1..Len(doc.messages) |-> doc.messages[i].label]

FlowchartLabels(f) ==
    [i \in 1..Len(f.flowcharts) |-> f.nodes[f.flowcharts[i]].label]

PairwiseDistinct(labels) ==
    \A i, j \in 1..Len(labels) : i # j => labels[i] # labels[j]

InLabels(labels, label) == \E i \in 1..Len(labels) : labels[i] = label

\* What a call with a label does to the labels of the list it is made on:
\* a label that is present raises the LMSException of a duplicate and the
\* list stays as it was, a fresh label is appended at the end.
LabelChecked(before, after, entries_kept) ==
    IF InLabels(before, input'.label)
    THEN /\ output'.err = "LMSException: label exists"
         /\ entries_kept
    ELSE /\ output'.err = ""
         /\ after = Append(before, input'.label)

\* C15: after any sequence of new_message calls on a document and of
\* new_flowchart calls on a flow graph the labels of each entry list are
\* pairwise distinct; a call with a label that is present raises the
\* LMSException of a duplicate label and leaves the list unchanged, and a
\* call with a fresh label appends exactly one entry, at the end.
C15_UniqueLabels ==
    /\ [](/\ PairwiseDistinct(MessageLabels(document))
          /\ PairwiseDistinct(FlowchartLabels(flows)))
    /\ [][IF input'.op = "new_message"
          THEN /\ LabelChecked(MessageLabels(document),
                               MessageLabels(document'),
                               document' = document)
               /\ SubSeq(document'.messages, 1, Len(document.messages))
                    = document.messages
               /\ flows' = flows
          ELSE /\ LabelChecked(FlowchartLabels(flows),
                               FlowchartLabels(flows'),
                               flows' = flows)
               /\ SubSeq(flows'.flowcharts, 1, Len(flows.flowcharts))
                    = flows.flowcharts
               /\ document' = document]_vars

\* new_message was called with the label of the first of two messages and
\* raised the exception.
C15_Witness ==
    /\ pc = "labels"
    /\ input.op = "new_message"
    /\ Len(document.messages) = 2
    /\ document.messages[1].label = input.label
    /\ output.err = "LMSException: label exists"

\* The same for new_flowchart.
C15_WitnessFlowchart ==
    /\ pc = "labels"
    /\ input.op = "new_flowchart"
    /\ Len(flows.flowcharts) = 2
    /\ flows.nodes[flows.flowcharts[1]].label = input.label
    /\ output.err = "LMSException: label exists"

(***************************************************************************)
(* Labels that cannot be packed.  pack_hash_table is called as in          *)
(* SpecTable, with lists that also hold a label of 256 characters and a    *)
(* label with the character U+00E9.                                        *)
(***************************************************************************)
LongestLabel == [k \in 1..255 |-> 76]
TooLongLabel == [k \in 1..256 |-> 76]
NonAsciiLabel == <<65, 233>>

CheckedLabels == {<<65>>, LongestLabel, TooLongLabel, NonAsciiLabel}

RECURSIVE CheckedLabelLists(_)
CheckedLabelLists(n) ==
    IF n = 0 THEN {<< >>}
    ELSE LET shorter == CheckedLabelLists(n - 1)
         IN  shorter \cup
             {Append(q, <<p, l>>) :
                 q \in {r \in shorter : Len(r) = n - 1},
                 p \in TablePositions, l \in CheckedLabels}

InitCheckedTable ==
    /\ pc = "table_pack"
    /\ input \in [labels : {l \in CheckedLabelLists(MaxEntries) :
                               DistinctPositions(l)},
                  num_buckets : 1..MaxTableBuckets,
                  big : BOOLEAN]
    /\ output = Null
    /\ stream = NewStream(Zeros(4 + input.num_buckets * 8), input.big)
    /\ document = Null /\ flows = Null /\ binary = Null

SpecCheckedTable == InitCheckedTable /\ [][NextTable]_vars

\* What is wrong with the first label of the list that cannot be packed:
\* it holds a character that is not ASCII, or it is longer than 255 bytes.
RECURSIVE FirstInvalid(_)
FirstInvalid(labels) ==
    IF Len(labels) = 0 THEN "none"
    ELSE IF \E k \in 1..Len(Head(labels)[2]) : Head(labels)[2][k] > 127
    THEN "NonAscii"
    ELSE IF Len(Head(labels)[2]) > 255 THEN "LabelTooLong"
    ELSE FirstInvalid(Tail(labels))

\* The exception pack_hash_table ended with, "" when it returned.
PackError == IF pc = "table_failed" THEN output.err ELSE ""

\* makebin of the document whose messages have the labels of the list.
MakeBinOfLabels ==
    msbt_makebin(NewAdapter(FALSE, FALSE),
                 [k \in 1..Len(input.labels) |->
                     [LMSMessage(<< >>) EXCEPT !.label = input.labels[k][2]]])

\* C16: pack_hash_table raises the LMSException of a label that is too
\* long when the first label it cannot pack is longer than 255 bytes, and
\* the UnicodeEncodeError of the ASCII codec when that label holds a
\* character that is not ASCII; in both cases it has written nothing but
\* the bucket count, and makebin of a document with these labels raises
\* the same exception and returns no bytes.
C16_InvalidLabel ==
    pc # "table_pack" =>
        With(FirstInvalid(input.labels), LAMBDA invalid :
            /\ invalid = "LabelTooLong"
                  <=> PackError = "LMSException: label too long"
            /\ invalid = "NonAscii" <=> PackError = "UnicodeEncodeError"
            /\ invalid = "none" <=> PackError = ""
            /\ invalid # "none" =>
                  /\ stream.buf = PackS32(input.num_buckets, input.big)
                                    \o Zeros(input.num_buckets * 8)
                  /\ MakeBinOfLabels = [err |-> PackError, buf |-> << >>])

\* The second label of the list is too long; the first one was valid.
C16_Witness ==
    /\ pc = "table_failed"
    /\ Len(input.labels) = 2
    /\ input.labels[1][2] = LongestLabel
    /\ input.labels[2][2] = TooLongLabel
    /\ output.err = "LMSException: label too long"

\* A label that is not ASCII after a valid one.
C16_WitnessNonAscii ==
    /\ pc = "table_failed"
    /\ Len(input.labels) = 2
    /\ input.labels[1][2] = <<65>>
    /\ input.labels[2][2] = NonAsciiLabel
    /\ output.err = "UnicodeEncodeError"

(***************************************************************************)
(* Both encoders: the life of a document and the life of a flow graph,     *)
(* each from its construction to the unpacking of the bytes of makebin.    *)
(***************************************************************************)
SpecEncoders == (InitMsbt \/ InitMsbf) /\ [][NextMsbt \/ NextMsbf]_vars

\* makebin has returned the bytes of a message table / of a flow graph.
MsbtPacked == pc \in {"msbt_packed", "msbt_done"}
MsbfPacked == pc \in {"msbf_packed", "msbf_done"}

\* The byte order of the adapter that packed the bytes.
PackedBig == IF MsbtPacked THEN document.adapter.big ELSE flows.adapter.big

\* The magics of the sections makebin writes, in the order it writes them:
\* LBL1, TXT2 and, when the adapter supports styles, TSY1 (no adapter of
\* the model supports attributes); FLW2 and FEN1.
WrittenMagics ==
    IF MsbtPacked
    THEN <<MAGIC_LBL1, MAGIC_TXT2>>
         \o IF document.adapter.styles THEN <<MAGIC_TSY1>> ELSE << >>
    ELSE <<MAGIC_FLW2, MAGIC_FEN1>>

AlignUp16(n) == ((n + 15) \div 16) * 16

\* The sections that are found in a file from offset off on: each begins
\* with the magic of a section of either format and is followed, at the
\* next multiple of 16 after its payload, by the next one.
RECURSIVE SectionsInFile(_, _, _)
SectionsInFile(buf, off, big) ==
    IF off + 16 > Len(buf) THEN 0
    ELSE IF SubSeq(buf, off + 1, off + 4)
              \notin {MAGIC_LBL1, MAGIC_TXT2, MAGIC_ATR1, MAGIC_ATO1,
                       MAGIC_TSY1, MAGIC_FLW2, MAGIC_FEN1, MAGIC_REF1}
    THEN 0
    ELSE 1 + SectionsInFile(buf,
                 AlignUp16(off + 16 + FieldU32(buf, off + 4, big)), big)

C17_WitnessFlows ==
    /\ pc = "msbf_done"
    /\ ~flows.adapter.big
    /\ \E i \in 1..Len(flows.temp_nodes) :
          flows.nodes[flows.temp_nodes[i]].type = BranchType
    /\ FieldU16(binary, 14, PackedBig) = 2
    /\ output.err = ""

\* The file holds, from offset off on, sections with the given magics:
\* each header at a multiple of 16 and inside the file, each payload
\* followed by bytes 0xAB up to the next multiple of 16, where the next
\* section begins.
RECURSIVE WellFramed(_, _, _, _)
WellFramed(buf, off, magics, big) ==
    IF Len(magics) = 0 THEN TRUE
    ELSE /\ off % 16 = 0
         /\ off + 16 <= Len(buf)
         /\ SubSeq(buf, off + 1, off + 4) = Head(magics)
         /\ With(off + 16 + FieldU32(buf, off + 4, big), LAMBDA end :
                /\ AlignUp16(end) <= Len(buf)
                /\ \A i \in (end + 1)..AlignUp16(end) : buf[i] = 171
                /\ WellFramed(buf, AlignUp16(end), Tail(magics), big))

\* C18: in the bytes makebin returns, every section header starts at a
\* multiple of 16, the section after a payload that starts at p and has
\* size s starts at the next multiple of 16 from p + s on, every byte
\* between is 0xAB, and the length of the bytes is a multiple of 16, also
\* when the payload of TSY1 is empty.
C18_SectionAlignment ==
    (MsbtPacked \/ MsbfPacked) =>
        /\ WellFramed(binary, 32, WrittenMagics, PackedBig)
        /\ Len(binary) % 16 = 0

\* A document without messages whose adapter supports styles was packed:
\* the payload of TSY1 is empty.
C18_Witness ==
    /\ pc = "msbt_packed"
    /\ document.adapter.styles
    /\ Len(document.messages) = 0
    /\ FieldU32(binary, 112 + 4, PackedBig) = 0
    /\ SubSeq(binary, 113, 116) = MAGIC_TSY1

\* A text of odd length in UTF-8 was packed: TXT2 is followed by padding
\* and by TSY1.
C18_WitnessPadding ==
    /\ pc = "msbt_packed"
    /\ document.adapter.styles
    /\ document.adapter.charset = "utf-8"
    /\ Len(document.messages) = 1
    /\ document.messages[1].text = <<Letter>>

\* The file of that document ends 16 bytes after the end of the empty
\* payload of TSY1: the padding loop runs on a stream that the 8 skipped
\* bytes of the section header have not yet lengthened.
EmptyStylesPaddedTwice ==
    /\ pc = "msbt_packed"
    /\ document.adapter.styles
    /\ Len(document.messages) = 0
    /\ Len(binary) = 112 + 16 + 16
    /\ \A i \in 129..144 : binary[i] = 171

\* The nodes a step of the flattening adds to the work queue: the
\* flowchart the "for" loop starts with, or what an iteration of the
\* "while" loop appends behind the nodes that were waiting.
Enqueued ==
    IF pc = "flw2_for" /\ pc' = "flw2_while" THEN flows'.remaining_nodes
    ELSE IF pc = "flw2_while"
    THEN SubSeq(flows'.remaining_nodes, Len(flows.remaining_nodes),
                Len(flows'.remaining_nodes))
    ELSE << >>

\* C19: during the flattening of _pack_flw2_ a node is added to the work
\* queue only if it is neither in the queue nor in the node table, and not
\* twice by the same iteration: every node is enqueued at most once.
C19_EnqueuedOnce ==
    [][\A k \in 1..Len(Enqueued) :
          /\ ~InList(flows.temp_nodes, Enqueued[k])
          /\ ~InList(flows.remaining_nodes, Enqueued[k])
          /\ \A j \in 1..(k - 1) : Enqueued[j] # Enqueued[k]]_vars

\* What does hold: a successor that an iteration appends is not in the
\* node table.
EnqueuedSuccessorNotInTable ==
    [][pc = "flw2_while" =>
          \A k \in 1..Len(Enqueued) :
              ~InList(flows'.temp_nodes, Enqueued[k])]_vars

\* The work queue holds the same node twice: a Branch whose next and else
\* are one node has just been taken from the queue.
QueuedTwice ==
    /\ pc = "flw2_while"
    /\ Len(flows.remaining_nodes) = 2
    /\ flows.remaining_nodes[1] = flows.remaining_nodes[2]
    /\ flows.nodes[flows.temp_nodes[Len(flows.temp_nodes)]].type = BranchType

\* The u16 at offset off of the payload of FLW2, the first section of the
\* bytes makebin returned for the flow graph.
Flw2U16(off) == FieldU16(binary, 48 + off, flows.adapter.big)

\* The positions (from 1) of the node table that hold a Branch.
TableBranches ==
    {i \in 1..Len(flows.temp_nodes) :
        flows.nodes[flows.temp_nodes[i]].type = BranchType}

\* How many Branch nodes the table holds before position i.
BranchesBefore(i) == Cardinality({j \in TableBranches : j < i})

\* The index the file has for a successor: 0xFFFF for none, else the
\* position (from 0) of the node in the table.
IsIndexOf(index, node) ==
    IF node = NoNode THEN index = NoIndex
    ELSE /\ index < Len(flows.temp_nodes)
         /\ flows.temp_nodes[index + 1] = node

\* Entry j (from 0) of the branch index table, which follows the nodes.
BranchIndex(j) == Flw2U16(8 + 12 * Len(flows.temp_nodes) + 2 * j)

\* C20: in the FLW2 section makebin wrote, the Branch that is number k
\* (from 0) among the Branch nodes of the table has arg4 = 2k, entries 2k
\* and 2k + 1 of the branch index table are the table positions of its
\* next and else nodes (0xFFFF for none), the table has twice as many
\* entries as there are Branch nodes and nothing follows it in the
\* payload, and the count of indices in the header is that length.
C20_BranchIndexTable ==
    MsbfPacked =>
        /\ Flw2U16(0) = Len(flows.temp_nodes)
        /\ Flw2U16(2) = 2 * Cardinality(TableBranches)
        /\ FieldU32(binary, 36, flows.adapter.big)
             = 8 + 12 * Len(flows.temp_nodes)
                 + 2 * (2 * Cardinality(TableBranches))
        /\ \A i \in TableBranches :
              /\ Flw2U16(8 + 12 * (i - 1) + 10) = 2 * BranchesBefore(i)
              /\ IsIndexOf(BranchIndex(2 * BranchesBefore(i)),
                           flows.nodes[flows.temp_nodes[i]].next_node)
              /\ IsIndexOf(BranchIndex(2 * BranchesBefore(i) + 1),
                           flows.nodes[flows.temp_nodes[i]].next_node_else)

\* A graph with two Branch nodes was packed: the second one in the table
\* has a next node and no else node, the first one has an else node.
C20_Witness ==
    /\ MsbfPacked
    /\ Cardinality(TableBranches) = 2
    /\ \E i, j \in TableBranches :
          /\ i < j
          /\ flows.nodes[flows.temp_nodes[i]].next_node_else # NoNode
          /\ flows.nodes[flows.temp_nodes[j]].next_node # NoNode
          /\ flows.nodes[flows.temp_nodes[j]].next_node_else = NoNode

(***************************************************************************)
(* The flattening loop of _pack_flw2_ under the scheduling of the code: a  *)
(* single thread runs the loop, so an iteration that can be taken is       *)
(* taken.  An iteration always changes flows: it takes a node from the     *)
(* queue, and appends to the queue only nodes that are not in the table.   *)
(***************************************************************************)
\* The state after LMSFlows(adapter_maker), with no error reported, an
\* empty stream and no bytes returned yet.
InitMsbfLive ==
    /\ pc = "msbf_edit"
    /\ input = Null
    /\ output = [err |-> ""]
    /\ stream = NewStream(<< >>, TRUE)
    /\ document = Null
    /\ flows \in {[adapter |-> NewAdapter(fixed, FALSE), flowcharts |-> << >>,
                   nodes |-> << >>, temp_nodes |-> << >>,
                   temp_indices |-> << >>, remaining_nodes |-> << >>,
                   root_i |-> 0] : fixed \in BOOLEAN}
    /\ binary = << >>

SpecMsbfLive ==
    InitMsbfLive /\ [][NextMsbf]_vars /\ WF_<<pc, flows>>(FlattenNode)

\* C21: the flattening loop of _pack_flw2_ terminates: whenever the while
\* loop of a flowchart is running, the work queue remaining_nodes becomes
\* empty and the for loop is back in control, whatever the graph (cycles,
\* nodes with several predecessors).
C21_FlatteningTerminates ==
    (pc = "flw2_while") ~> (pc = "flw2_for" /\ Len(flows.remaining_nodes) = 0)

\* The loops of all flowcharts are over for a graph of MaxNodes nodes in
\* which a node is its own successor after some steps, a flowchart is the
\* successor of a node, and two nodes share a successor.
C21_Witness ==
    /\ pc = "flw2_for"
    /\ flows.root_i = Len(flows.flowcharts)
    /\ Len(flows.temp_nodes) = MaxNodes
    /\ \E a \in Reachable(flows) :
          a \in SuccessorsWithin(flows, a, Len(flows.nodes))
    /\ \E a \in Reachable(flows), i \in 1..Len(flows.flowcharts) :
          flows.flowcharts[i] \in Successors(flows, a)
    /\ \E a, b \in Reachable(flows) :
          /\ a # b
          /\ Successors(flows, a) \cap Successors(flows, b) # {}

\* The work queue never holds more than a bounded number of references
\* while a graph of MaxNodes nodes is flattened.
QueueIsBounded == Len(flows.remaining_nodes) <= 2 * MaxNodes

(***************************************************************************)
(* read_text on any buffer: the bytes need not be the output of            *)
(* write_text, and the cursor is put anywhere, also at or past the end of  *)
(* the buffer, as _unpack_txt2_ does with an offset of the file.           *)
(***************************************************************************)
\* The null byte, a letter, and the two bytes of U+00E9 in UTF-8.
BufferBytes == {0, Letter, 195, 169}

InitReadText ==
    /\ pc = "read_text"
    /\ input \in [buffer : SeqsUpTo(BufferBytes, MaxBufferLen),
                   offset : 0..(MaxBufferLen + 1), charset : Charsets]
    /\ output = Null
    /\ stream = Seek(NewStream(input.buffer, input.charset # "utf-16-le"),
                     input.offset)
    /\ document = Null /\ flows = Null /\ binary = Null

\* adapter.read_text(stream)
CallReadTextAt ==
    /\ pc = "read_text"
    /\ \E r \in {read_text(input.charset, stream)} :
           /\ stream' = r.s
           /\ output' = [err |-> r.err, text |-> r.text, tags |-> r.tags]
    /\ pc' = "read_text_done"
    /\ UNCHANGED <<input, entities>>

NextReadText == CallReadTextAt

SpecReadText == InitReadText /\ [][NextReadText]_vars

\* The width of a character of the charset that has a fixed width, and of
\* the null character in UTF-8.
UnitWidth == IF input.charset = "utf-8" THEN 1 ELSE 2

\* A null character lies in the buffer at the cursor or after it, at a
\* whole number of characters from the cursor.
NullAhead ==
    \E k \in 0..Len(input.buffer) :
        /\ input.offset + k * UnitWidth + UnitWidth <= Len(input.buffer)
        /\ \A b \in 1..UnitWidth :
              input.buffer[input.offset + k * UnitWidth + b] = 0

\* C22: read_text terminates in every charset, and when the buffer is
\* exhausted before a null character is read (unterminated text, or a
\* cursor at or past the end of the buffer) it fails with EndOfData
\* (EOFException).
C22_ReadTextTerminates ==
    pc = "read_text_done" =>
        /\ output.err # "Hang"
        /\ ~NullAhead => output.err = "EOFException"

\* What does hold in UTF-8: read_text returns or raises, and a buffer of
\* single-byte characters without a null byte ahead raises EOFException.
ReadTextTerminatesInUtf8 ==
    pc = "read_text_done" /\ input.charset = "utf-8" =>
        /\ output.err # "Hang"
        /\ /\ ~NullAhead
           /\ \A k \in 1..Len(input.buffer) : input.buffer[k] < 128
           => output.err = "EOFException"

\* What does hold in the 16-bit charsets: EOFException is never raised;
\* without a null character ahead read_text loops forever when a whole
\* number of characters is left, and raises UnicodeDecodeError when one
\* byte is left over.
ReadTextIn16BitNeverEndOfData ==
    pc = "read_text_done" /\ input.charset # "utf-8" =>
        /\ output.err # "EOFException"
        /\ ~NullAhead => output.err \in {"Hang", "UnicodeDecodeError"}

\* read_text of a 16-bit charset was called with the cursor at the end of
\* the buffer, and with an unterminated text of one character.
ReadTextHangs ==
    /\ pc = "read_text_done"
    /\ input.charset = "utf-16-be"
    /\ output.err = "Hang"
    /\ input.offset = Len(input.buffer)

UnterminatedTextHangs ==
    /\ pc = "read_text_done"
    /\ input.charset = "utf-16-le"
    /\ output.err = "Hang"
    /\ input.offset = 0
    /\ input.buffer = <<Letter, 0>>
    /\ output.text = <<Letter>>

(***************************************************************************)
(* makebin called again.  A document or a flow graph that was packed is    *)
(* packed a second time without an edit in between; the bytes a flow graph *)
(* was packed to are unpacked into a new LMSFlows, which is packed in      *)
(* turn.  output.first keeps the bytes of the call before.                 *)
(***************************************************************************)
\* msbt_pack_buffer on the document that was just packed.
MsbtMakeBinAgain ==
    /\ pc = "msbt_packed"
    /\ \E r \in {msbt_makebin(document.adapter, document.messages)} :
           /\ binary' = r.buf
           /\ output' = [err |-> r.err, first |-> binary]
    /\ pc' = "msbt_repacked"
    /\ UNCHANGED <<input, stream, document, flows>>

\* msbf_pack_buffer on the flow graph that was just packed: the two
\* temporary lists and the index slots of the nodes are those the call
\* before left behind.
MsbfMakeBinAgain ==
    /\ pc = "msbf_packed"
    /\ \E r \in {msbf_makebin(flows)} :
           /\ binary' = r.buf
           /\ flows' = r.f
           /\ output' = [err |-> r.err, first |-> binary]
    /\ pc' = "msbf_repacked"
    /\ UNCHANGED <<input, stream, document>>

\* The LMSFlows msbf_from_buffer returned, as the graph that is edited and
\* packed: _unpack_ deleted its temporary lists, the index slots of its
\* nodes hold what was read from the file.
DecodedFlows(g, adapter) ==
    [adapter |-> IF g.big THEN set_big_endian(adapter)
                 ELSE set_little_endian(adapter),
     flowcharts |-> g.flowcharts, nodes |-> g.temp_nodes,
     temp_nodes |-> << >>, temp_indices |-> << >>, remaining_nodes |-> << >>,
     root_i |-> 0]

\* msbf_from_buffer of the bytes, then msbf_pack_buffer of the LMSFlows
\* that was returned.
MsbfUnpackAndMakeBin ==
    /\ pc = "msbf_packed"
    /\ \E g \in {msbf_from_buffer(NewAdapter(flows.adapter.fixed, FALSE),
                                   binary)} :
           /\ g.err = ""
           /\ \E r \in {msbf_makebin(
                           DecodedFlows(g, NewAdapter(flows.adapter.fixed,
                                                      FALSE)))} :
                  /\ r.err = ""
                  /\ binary' = r.buf
                  /\ flows' = r.f
                  /\ output' = [err |-> r.err, decoded |-> TRUE]
    /\ UNCHANGED <<pc, input, stream, document>>

NextRepack ==
    \/ NextMsbt
    \/ NextMsbf
    \/ MsbtMakeBinAgain
    \/ MsbfMakeBinAgain
    \/ MsbfUnpackAndMakeBin

SpecRepack == (InitMsbt \/ InitMsbf) /\ [][NextRepack]_vars

\* C23: makebin called a second time on a document or on a flow graph that
\* was not edited since the first call succeeds and returns the same bytes,
\* whether the entity was built by the caller or unpacked from a file, and
\* whatever the call before left in its temporary lists and index slots.
C23_MakeBinTwice ==
    pc \in {"msbt_repacked", "msbf_repacked"} =>
        /\ output.err = ""
        /\ binary = output.first

\* A flow graph of MaxNodes nodes with a Branch, whose first call left a
\* table and branch indices behind, was packed twice.
C23_Witness ==
    /\ pc = "msbf_repacked"
    /\ Len(flows.temp_nodes) = MaxNodes
    /\ Len(flows.temp_indices) > 0
    /\ binary = output.first
    /\ Len(binary) > 32

\* A document with a text was packed twice.
C23_WitnessDocument ==
    /\ pc = "msbt_repacked"
    /\ Len(document.messages) = MaxMessages
    /\ \E i \in 1..Len(document.messages) : document.messages[i].text # << >>
    /\ binary = output.first
    /\ Len(binary) > 32

(***************************************************************************)
(* The flowcharts of a flow graph that is unpacked from a file whose label *)
(* table or whose type tags were overwritten.                              *)
(***************************************************************************)
\* A flow graph whose damage, if any, is in the label table and in the
\* type tag of a node was unpacked.
EntriesDamaged ==
    /\ pc = "file_done"
    /\ input.format = "msbf"
    /\ input.patched \subseteq {"label_table", "node_type"}

\* The positions (from 0) of the table whose type tag is Entry.
FileEntries == {i \in 0..(FileNodes - 1) : NodeType(i) = EntryType}

\* The Entry nodes of the file from position i on, in the order of the
\* table, as references to the nodes that are unpacked.
RECURSIVE EntriesFrom(_)
EntriesFrom(i) ==
    IF i >= FileNodes THEN << >>
    ELSE (IF NodeType(i) = EntryType THEN <<i + 1>> ELSE << >>)
         \o EntriesFrom(i + 1)

\* The first position of an Entry node without a label in FEN1, FileNodes
\* when every Entry node has one.
FirstUnlabelled ==
    IF \A i \in FileEntries : i \in DOMAIN FileLabels THEN FileNodes
    ELSE CHOOSE i \in FileEntries :
             /\ i \notin DOMAIN FileLabels
             /\ \A j \in FileEntries : j < i => j \in DOMAIN FileLabels

\* The successor indices of the nodes before position i all resolve.
ResolvableBefore(i) ==
    \A j \in 0..(i - 1) :
        /\ Resolvable(NextOffset(j))
        /\ NodeType(j) = BranchType => Resolvable(ElseOffset(j))

\* C24: unpacking a flow graph whose successor indices resolve appends to
\* _flowcharts_ exactly the nodes of the table whose type tag is Entry,
\* each once and in table order, and gives each the label FEN1 holds for
\* its position; no node of another variant is appended, whatever FEN1
\* holds for its position; and when FEN1 has no label for the position of
\* an Entry node, unpacking raises the LMSException of a missing label.
C24_EntryNodesAreRoots ==
    EntriesDamaged /\ ResolvableBefore(FirstUnlabelled) =>
        IF FirstUnlabelled < FileNodes
        THEN output.err = "LMSException: No label for entry node"
        ELSE /\ output.err = ""
             /\ output.decoded.flowcharts = EntriesFrom(0)
             /\ \A k \in 1..Len(output.decoded.flowcharts) :
                   LET node == output.decoded.temp_nodes[
                                   output.decoded.flowcharts[k]]
                   IN  /\ node.type = EntryType
                       /\ node.label
                            = FileLabels[output.decoded.flowcharts[k] - 1]
             /\ \A i \in 1..Len(output.decoded.temp_nodes) :
                   output.decoded.temp_nodes[i].type # EntryType =>
                       ~InList(output.decoded.flowcharts, i)

\* A file with two Entry nodes, not next to each other in the table, and
\* a label for each was unpacked.
C24_Witness ==
    /\ EntriesDamaged
    /\ FileEntries = {0, 2}
    /\ DOMAIN FileLabels = {0, 2}
    /\ output.err = ""
    /\ output.decoded.flowcharts = <<1, 3>>
    /\ output.decoded.temp_nodes[1].label = FlowLabel(1)
    /\ output.decoded.temp_nodes[3].label = FlowLabel(2)

\* The label of the second of two Entry nodes was removed from FEN1 and
\* unpacking raised the exception.
C24_WitnessMissingLabel ==
    /\ EntriesDamaged
    /\ FileEntries = {0, 2}
    /\ DOMAIN FileLabels = {0}
    /\ output.err = "LMSException: No label for entry node"

\* The type tag of a labelled Entry node was overwritten with the one of a
\* Message: the node was unpacked and is no flowchart.
C24_WitnessNoRoot ==
    /\ EntriesDamaged
    /\ input.patched = {"node_type"}
    /\ 0 \in DOMAIN FileLabels
    /\ NodeType(0) = MessageType
    /\ output.err = ""
    /\ ~InList(output.decoded.flowcharts, 1)

(***************************************************************************)
(* binIO.py: every primitive read of BinaryMemoryIO.  A primitive is named *)
(* by the suffix of its reader (read_u8, ..., read_f64).  The buffer holds *)
(* bytes that are all different, the cursor starts anywhere, also past the *)
(* end, and primitives are read one after the other until a read fails.    *)
(***************************************************************************)
Primitives ==
    {"u8", "s8", "bool", "u16", "s16", "u32", "s32", "u64", "s64", "f32",
     "f64"}

\* struct.Struct(...).size of the primitive.
Width(kind) ==
    IF kind \in {"u8", "s8", "bool"} THEN 1
    ELSE IF kind \in {"u16", "s16"} THEN 2
    ELSE IF kind \in {"u32", "s32", "f32"} THEN 4
    ELSE 8

\* The bytes with the most significant one first.
RECURSIVE Reversed(_)
Reversed(raw) ==
    IF Len(raw) = 0 THEN << >> ELSE Append(Reversed(Tail(raw)), Head(raw))

\* struct.unpack_from of the primitive.  A value of 64 bits and a float are
\* kept as their bytes, most significant first.
UnpackPrimitive(kind, raw, big) ==
    IF kind = "u8" THEN raw[1]
    ELSE IF kind = "s8" THEN (IF raw[1] >= 128 THEN raw[1] - 256 ELSE raw[1])
    ELSE IF kind = "bool" THEN raw[1] # 0
    ELSE IF kind = "u16" THEN UnpackU16(raw, big)
    ELSE IF kind = "s16"
    THEN With(UnpackU16(raw, big), LAMBDA v :
             IF v >= 32768 THEN v - 65536 ELSE v)
    ELSE IF kind = "u32" THEN UnpackU32(raw, big)
    ELSE IF kind = "s32" THEN UnpackS32(raw, big)
    ELSE IF big THEN raw ELSE Reversed(raw)

\* read_u8 ... read_f64
read_primitive(s, kind) ==
    With(ReadPrimitive(s, Width(kind)), LAMBDA r :
        [err |-> r.err, s |-> r.s, raw |-> r.raw,
         v |-> IF r.err = "" THEN UnpackPrimitive(kind, r.raw, s.big) ELSE 0])

\* The first bytes of the buffers: small, around the sign bit, large.
FirstBytes == {1, 125, 246}

InitRead ==
    /\ pc = "read"
    /\ \E n \in 0..MaxReadLen, first \in FirstBytes, big \in BOOLEAN,
          pos \in 0..(MaxReadLen + 1) :
          /\ stream = Seek(NewStream([i \in 1..n |-> first + i - 1], big), pos)
          /\ input = [kind |-> "none", pos |-> pos]
    /\ output = [err |-> "", raw |-> << >>, v |-> 0]
    /\ document = Null /\ flows = Null /\ binary = Null

\* One of the readers is called; the caller reads on only after a read
\* that returned.
CallReadPrimitive ==
    /\ pc = "read"
    /\ \E kind \in Primitives :
          \E r \in {read_primitive(stream, kind)} :
              /\ input' = [kind |-> kind, pos |-> stream.pos]
              /\ stream' = r.s
              /\ output' = [err |-> r.err, raw |-> r.raw, v |-> r.v]
              /\ pc' = IF r.err = "" THEN "read" ELSE "read_failed"
    /\ UNCHANGED entities

NextRead == CallReadPrimitive

SpecRead == InitRead /\ [][NextRead]_vars

\* The bytes that were left in the buffer when the last reader was called.
Remaining == Max(Len(stream.buf) - input.pos, 0)

\* C25: a reader that finds fewer bytes left than the width of its
\* primitive raises EOFException; a reader that returns has read exactly
\* the bytes of the buffer from the cursor on, as many as the width, has
\* moved the cursor past them, and its value is the one of these bytes.
C25_ShortReadFails ==
    input.kind # "none" =>
        IF Remaining < Width(input.kind)
        THEN /\ pc = "read_failed"
             /\ output.err = "EOFException"
        ELSE /\ pc = "read"
             /\ output.err = ""
             /\ output.raw = SubSeq(stream.buf, input.pos + 1,
                                    input.pos + Width(input.kind))
             /\ stream.pos = input.pos + Width(input.kind)
             /\ output.v = UnpackPrimitive(input.kind, output.raw, stream.big)

\* A reader of eight bytes found seven bytes left and raised, after a
\* reader that returned.
C25_Witness ==
    /\ pc = "read_failed"
    /\ Width(input.kind) = 8
    /\ Remaining = 7
    /\ input.pos > 0
    /\ output.err = "EOFException"

\* A reader was called with the cursor past the end of the buffer.
C25_WitnessPastEnd ==
    /\ pc = "read_failed"
    /\ input.pos > Len(stream.buf)
    /\ Len(stream.buf) > 0
    /\ output.err = "EOFException"

\* A signed reader returned a negative value read in little endian.
C25_WitnessValue ==
    /\ pc = "read"
    /\ input.kind = "s16"
    /\ ~stream.big
    /\ output.err = ""
    /\ output.v < 0

(***************************************************************************)
(* The successor indices of the FLW2 section makebin wrote.                *)
(***************************************************************************)
\* Where the payload of FLW2 keeps the successor index of the node at
\* position i (from 1) of the table, for an Entry (arg1), a Message (arg3)
\* and an Event (arg2).
WrittenNextOffset(i) ==
    8 + 12 * (i - 1) + 2
      + 2 * (IF flows.nodes[flows.temp_nodes[i]].type = EntryType THEN 1
             ELSE IF flows.nodes[flows.temp_nodes[i]].type = MessageType THEN 3
             ELSE 2)

\* An index that try_get_node resolves against the node count of the file.
WrittenIndexResolves(index) == index = NoIndex \/ index < Flw2U16(0)

\* C26: once the flattening is over every successor of a node of the table
\* is in the table, so the look-up of its position cannot fail; every
\* successor index of the bytes makebin returned (arg1 of an Entry, arg3
\* of a Message, arg2 of an Event, every entry of the branch index table)
\* is 0xFFFF or below the node count of the file, and is the table
\* position of the successor it stands for; and unpacking these bytes
\* never raises the LMSException of an index without node.
C26_WrittenIndicesResolve ==
    /\ Flattened =>
          \A i \in 1..Len(flows.temp_nodes) :
              \A next \in Successors(flows, flows.temp_nodes[i]) :
                  InList(flows.temp_nodes, next)
    /\ MsbfPacked =>
          /\ \A i \in (1..Len(flows.temp_nodes)) \ TableBranches :
                /\ WrittenIndexResolves(Flw2U16(WrittenNextOffset(i)))
                /\ IsIndexOf(Flw2U16(WrittenNextOffset(i)),
                             flows.nodes[flows.temp_nodes[i]].next_node)
          /\ \A j \in 0..(Flw2U16(2) - 1) :
                WrittenIndexResolves(BranchIndex(j))
    /\ pc = "msbf_done" => output.err # "LMSException: No node at index"

\* A graph of MaxNodes nodes was packed and unpacked: one successor index
\* of the file is the last position of the table, another one is 0xFFFF,
\* and a Branch has its two indices in the branch index table.
C26_Witness ==
    /\ pc = "msbf_done"
    /\ output.err = ""
    /\ Len(flows.temp_nodes) = MaxNodes
    /\ Flw2U16(2) = 2
    /\ \E i \in (1..Len(flows.temp_nodes)) \ TableBranches :
          Flw2U16(WrittenNextOffset(i)) = MaxNodes - 1
    /\ \E j \in 0..1 : BranchIndex(j) = NoIndex

(***************************************************************************)
(* The charset and the byte order of the adapter of a document.            *)
(***************************************************************************)
\* A 16-bit charset of the adapter is the one of its byte order.
CharsetAgrees(adapter) ==
    /\ adapter.charset = "utf-16-le" => ~adapter.big
    /\ adapter.charset = "utf-16-be" => adapter.big

\* C27: whatever set_big_endian, set_little_endian and assignments of the
\* charset were made on a document, the charset of its adapter is never
\* 'utf-16-le' while the adapter is big endian and never 'utf-16-be' while
\* it is little endian.
C27_CharsetAgreesWithByteOrder ==
    pc \in {"msbt_edit", "msbt_packed", "msbt_done", "msbt_failed"} =>
        CharsetAgrees(document.adapter)

\* What does hold: the adapter is as the claim says right after
\* set_big_endian and right after set_little_endian, and the assignment
\* of a charset leaves the byte order alone.
ByteOrderSettersAgree ==
    [][/\ SetBigEndian \/ SetLittleEndian => CharsetAgrees(document'.adapter)
       /\ SetBigEndian => document'.adapter.big
       /\ SetLittleEndian => ~document'.adapter.big
       /\ SetCharset => document'.adapter.big = document.adapter.big]_vars

\* The charset 'utf-16-le' was assigned to a big endian adapter, and the
\* document was packed.
CharsetAgainstByteOrder ==
    /\ pc = "msbt_packed"
    /\ document.adapter.big
    /\ document.adapter.charset = "utf-16-le"
    /\ Len(document.messages) > 0

(***************************************************************************)
(* write_text on texts with placeholder spans: the texts are made of a     *)
(* letter and of the three characters write_text treats specially.         *)
(***************************************************************************)
SpanChars == {Letter, Backslash, OpenBracket, CloseBracket}

InitSpan ==
    /\ pc = "text_write"
    /\ input \in [text : SeqsUpTo(SpanChars, MaxSpanLen), charset : Charsets]
    /\ output = Null
    /\ stream = NewStream(<< >>, input.charset # "utf-16-le")
    /\ document = Null /\ flows = Null /\ binary = Null

SpecSpan == InitSpan /\ [][NextText]_vars

\* The characters of a text that stand outside a span, from position k
\* on and up to the first unescaped bracket: the ordinary ones and the
\* ones that follow a backslash.
RECURSIVE OutsideSpan(_, _, _)
OutsideSpan(text, k, esc) ==
    IF k > Len(text) THEN << >>
    ELSE IF esc THEN <<text[k]>> \o OutsideSpan(text, k + 1, FALSE)
    ELSE IF text[k] = Backslash THEN OutsideSpan(text, k + 1, TRUE)
    ELSE IF text[k] \in {OpenBracket, CloseBracket} THEN << >>
    ELSE <<text[k]>> \o OutsideSpan(text, k + 1, FALSE)

\* The bytes of a string of characters in a charset.
RECURSIVE EncodedChars(_, _, _)
EncodedChars(charset, chars, k) ==
    IF k > Len(chars) THEN << >>
    ELSE (IF charset = "utf-8" THEN Utf8Encode(chars[k]).bytes
          ELSE Utf16Encode(chars[k], charset = "utf-16-be").bytes)
         \o EncodedChars(charset, chars, k + 1)

\* write_text ended with a span open, or at the bracket that closes the
\* first span of the text, where the tag writer is called.
StoppedAtSpan ==
    /\ pc = "text_failed"
    /\ ScanText(input.text, 1, FALSE, FALSE) \in {"UnterminatedTag", "TagWriter"}

\* C28: when write_text has opened a span, the stream holds the characters
\* that precede the opening bracket and nothing else until the tag writer
\* is called: no character of the span, not even one that follows a
\* backslash, is written as text.
C28_SpanNotWrittenAsText ==
    StoppedAtSpan =>
        stream.buf = EncodedChars(input.charset,
                                  OutsideSpan(input.text, 1, FALSE), 1)

\* What does hold: the same for the texts with no backslash after an
\* opening bracket.
SpanWithoutBackslashNotWritten ==
    (/\ StoppedAtSpan
     /\ \A k \in 1..Len(input.text) :
           input.text[k] = Backslash =>
               \A j \in 1..(k - 1) : input.text[j] # OpenBracket)
    => stream.buf = EncodedChars(input.charset,
                                 OutsideSpan(input.text, 1, FALSE), 1)

\* The text [\a] : the letter of the span was written to the stream as
\* text before the tag writer was called with the span.
EscapedSpanCharacterWritten ==
    /\ pc = "text_failed"
    /\ input.text = <<OpenBracket, Backslash, Letter, CloseBracket>>
    /\ input.charset = "utf-8"
    /\ output.err = "NotImplementedError"
    /\ output.tags = 1
    /\ stream.buf = <<Letter>>

(***************************************************************************)
(* The order of the flowcharts of a flow graph that was packed and         *)
(* unpacked.  Flowcharts are told apart by their labels, which differ.     *)
(***************************************************************************)
\* The labels of the flowcharts of the graph that was packed, in the order
\* of _flowcharts_.
PackedRootLabels ==
    [k \in 1..Len(flows.flowcharts) |-> flows.nodes[flows.flowcharts[k]].label]

\* The labels of the flowcharts msbf_from_buffer returned, in the order of
\* _flowcharts_.
UnpackedRootLabels ==
    [k \in 1..Len(output.flowcharts) |->
        output.nodes[output.flowcharts[k]].label]

\* A flowchart is the successor of a node of the graph.
RootIsSuccessor ==
    \E a \in Reachable(flows), k \in 1..Len(flows.flowcharts) :
        flows.flowcharts[k] \in Successors(flows, a)

\* C29: unpacking the bytes a flow graph was packed to lists the
\* flowcharts in the order of the flowchart list of the graph, also when
\* a flowchart is the successor of a node of an earlier flowchart.
C29_RootOrder ==
    pc = "msbf_done" =>
        /\ output.err = ""
        /\ UnpackedRootLabels = PackedRootLabels

\* What does hold: the order is kept when no flowchart is the successor of
\* a node, and the flowcharts are always the same ones.
RootOrderWithoutRootSuccessor ==
    pc = "msbf_done" =>
        /\ output.err = ""
        /\ ~RootIsSuccessor => UnpackedRootLabels = PackedRootLabels
        /\ {UnpackedRootLabels[k] : k \in 1..Len(output.flowcharts)}
             = {PackedRootLabels[k] : k \in 1..Len(flows.flowcharts)}
        /\ Len(output.flowcharts) = Len(flows.flowcharts)

\* The flowcharts A, B, C with C the successor of A were packed and
\* unpacked: the flowcharts come back as A, C, B.
RootsReordered ==
    /\ pc = "msbf_done"
    /\ output.err = ""
    /\ PackedRootLabels = <<FlowLabel(1), FlowLabel(2), FlowLabel(3)>>
    /\ flows.nodes[flows.flowcharts[1]].next_node = flows.flowcharts[3]
    /\ UnpackedRootLabels = <<FlowLabel(1), FlowLabel(3), FlowLabel(2)>>

(***************************************************************************)
(* The construction of an LMSFlows from an adapter class.  A class is      *)
(* LMSAdapter or a subclass of it; it declares supports_flows as a         *)
(* property, as LMSAdapter does, or as a plain class attribute, with the   *)
(* value False or True, and it overrides use_fixed_buckets or not.         *)
(* input is the class.                                                     *)
(***************************************************************************)
AdapterClasses ==
    [declared : {"property", "attribute"}, supports_flows : BOOLEAN,
     fixed : BOOLEAN]

\* The class LMSAdapter itself.
LMSAdapter == [declared |-> "property", supports_flows |-> FALSE,
               fixed |-> FALSE]

\* The truth value of "adapter_maker.supports_flows", read on the class: a
\* property read on a class is the property object, which is true.
ClassSupportsFlows(adapter_maker) ==
    adapter_maker.declared = "property" \/ adapter_maker.supports_flows

\* LMSFlows.__init__
LMSFlows(adapter_maker) ==
    IF ~ClassSupportsFlows(adapter_maker)
    THEN [err |-> "LMSException: Adapter does not support flowcharts",
          f |-> EmptyFlows(NewAdapter(adapter_maker.fixed, FALSE))]
    ELSE [err |-> "", f |-> EmptyFlows(NewAdapter(adapter_maker.fixed, FALSE))]

InitConstruct ==
    /\ pc = "construct"
    /\ input \in AdapterClasses
    /\ output = [err |-> ""]
    /\ stream = Null
    /\ document = Null
    /\ flows = EmptyFlows(NewAdapter(input.fixed, FALSE))
    /\ binary = << >>

\* LMSFlows(adapter_maker)
ConstructFlows ==
    /\ pc = "construct"
    /\ \E r \in {LMSFlows(input)} :
           /\ output' = [err |-> r.err]
           /\ flows' = r.f
           /\ pc' = IF r.err = "" THEN "constructed" ELSE "construct_failed"
    /\ UNCHANGED <<input, stream, document, binary>>

\* msbf_from_buffer(adapter_maker, buffer) on the bytes of a flow graph:
\* the LMSFlows is constructed, then it unpacks the buffer.
ConstructFromBuffer ==
    /\ pc = "construct"
    /\ \E file \in {x \in PackedFiles : x.format = "msbf"} :
       \E r \in {LMSFlows(input)} :
           IF r.err # ""
           THEN /\ output' = [err |-> r.err]
                /\ pc' = "construct_failed"
                /\ UNCHANGED <<flows, binary>>
           ELSE \E g \in {msbf_from_buffer(r.f.adapter, file.buf)} :
                    /\ output' = [err |-> g.err]
                    /\ flows' = DecodedFlows(g, r.f.adapter)
                    /\ binary' = file.buf
                    /\ pc' = IF g.err = "" THEN "constructed"
                             ELSE "unpack_failed"
    /\ UNCHANGED <<input, stream, document>>

\* new_flowchart on the LMSFlows that was constructed.
ConstructedNewFlowchart ==
    /\ pc = "constructed"
    /\ Len(flows.flowcharts) < MaxLabelled
    /\ \E label \in {FlowLabel(k) : k \in 1..MaxLabelled} :
          \E r \in {new_flowchart(flows, label)} :
              /\ flows' = r.f
              /\ output' = [err |-> r.err]
    /\ UNCHANGED <<pc, input, stream, document, binary>>

NextConstruct ==
    \/ ConstructFlows
    \/ ConstructFromBuffer
    \/ ConstructedNewFlowchart

SpecConstruct == InitConstruct /\ [][NextConstruct]_vars

\* C30: the construction of an LMSFlows, directly or by msbf_from_buffer,
\* with an adapter class whose supports_flows is False raises the
\* LMSException and gives no flow graph; it succeeds only for a class
\* whose supports_flows is True.
C30_FlowsNeedSupport ==
    pc # "construct" =>
        IF input.supports_flows
        THEN pc # "construct_failed"
        ELSE /\ pc = "construct_failed"
             /\ output.err = "LMSException: Adapter does not support flowcharts"

\* What does hold: the construction fails exactly for a class that
\* declares supports_flows = False as a plain class attribute.
ConstructionFailsForFalseAttribute ==
    pc # "construct" =>
        (pc = "construct_failed"
            <=> (input.declared = "attribute" /\ ~input.supports_flows))

\* An LMSFlows was constructed with the class LMSAdapter, whose
\* supports_flows is False, and has been given a flowchart.
FlowsOfBaseAdapter ==
    /\ pc = "constructed"
    /\ input = LMSAdapter
    /\ Len(flows.nodes) = 1
    /\ Len(flows.flowcharts) = 1

\* msbf_from_buffer with the class LMSAdapter returned a flow graph of
\* three nodes.
FlowsOfBaseAdapterUnpacked ==
    /\ pc = "constructed"
    /\ input = LMSAdapter
    /\ Len(binary) > 0
    /\ output.err = ""
    /\ Len(flows.nodes) = 3

====
